---- MODULE Spec2Model ----
(***************************************************************************)
(* Model of the city cache of eSunMoon: the advisory file lock             *)
(* (acquireFileLock), the lock-free reader (loadCache) and the locked,     *)
(* atomic writer (saveCache), run by independent processes that share one  *)
(* cache directory.  One action is one system call (or one blocking point) *)
(* of one process, so every interleaving of the calls is explored.         *)
(***************************************************************************)
EXTENDS Integers, Sequences, FiniteSets, TLC

\* ---- bounds of the model ----
NumProcs == 2        \* independent processes sharing the cache directory
MaxCalls == 2        \* saveCache and loadCache calls started in one behaviour
MaxLockCalls == 3    \* direct acquireFileLock calls started in one behaviour
MaxFaults == 1       \* injected I/O failures and process crashes in one behaviour
MaxCityCalls == 2    \* prepareCity and cache-clear calls started in one behaviour
MaxInput == 2        \* characters typed at one prompt of the TUI

Procs == 1..NumProcs

\* ---- paths in the cache directory ----
CachePath == <<"cache", 0>>                  \* cacheFilePath()
LockPath == <<"lock", 0>>                    \* path + ".lock"
TmpNames == {<<"tmp", i>> : i \in Procs}     \* names matching esunmoon-cache-*.tmp
Names == {CachePath, LockPath} \cup TmpNames
NoName == <<"none", 0>>                      \* no temporary file name yet
NoFile == 0                                  \* directory entry absent / no open descriptor
InoIds == 1..(2 * NumProcs + 2)              \* cache, lock, one temp and one open orphan per process

\* ---- the cache document ----
\* A string is a sequence of characters; Alphabet lists them in byte order.  The
\* characters of the Chinese city names are written by their code points; "0xFF" is
\* a byte that is not UTF-8.
Alphabet ==
    <<" ", "A", "B", "C", "E", "G", "I", "J", "K", "N", "P", "S",
      "a", "b", "c", "e", "g", "h", "i", "j", "k", "n", "o", "p", "s", "t", "u", "z",
      "U+4E0A", "U+4EAC", "U+5317", "U+5DDE", "U+5E7F", "U+6D77", "U+FFFD", "0xFF">>
Code(c) == CHOOSE i \in 1..Len(Alphabet) : Alphabet[i] = c
RECURSIVE StrLess(_, _)
StrLess(s, t) ==
    IF t = <<>> THEN FALSE
    ELSE IF s = <<>> THEN TRUE
    ELSE IF Head(s) # Head(t) THEN Code(Head(s)) < Code(Head(t))
    ELSE StrLess(Tail(s), Tail(t))

\* ---- city names ----
Upper == <<"A", "B", "C", "E", "G", "I", "J", "K", "N", "P", "S">>
Lower == <<"a", "b", "c", "e", "g", "i", "j", "k", "n", "p", "s">>
\* strings.ToLower on one character: letters without case stay as they are, and a
\* byte that is not UTF-8 comes back as U+FFFD (strings.Map writes utf8.RuneError)
ToLowerChar(c) ==
    IF \E i \in 1..Len(Upper) : Upper[i] = c
    THEN Lower[CHOOSE i \in 1..Len(Upper) : Upper[i] = c]
    ELSE IF c = "0xFF" THEN "U+FFFD"
    ELSE c
ToLower(s) == [i \in 1..Len(s) |-> ToLowerChar(s[i])]
\* strings.TrimSpace: white space goes from both ends, not from the middle
RECURSIVE TrimLeft(_)
TrimLeft(s) == IF s # <<>> /\ Head(s) = " " THEN TrimLeft(Tail(s)) ELSE s
RECURSIVE TrimRight(_)
TrimRight(s) ==
    IF s # <<>> /\ s[Len(s)] = " " THEN TrimRight(SubSeq(s, 1, Len(s) - 1)) ELSE s
TrimSpace(s) == TrimRight(TrimLeft(s))
\* normalizeCityKey(city) = strings.ToLower(strings.TrimSpace(city))
normalizeCityKey(city) == ToLower(TrimSpace(city))

Beijing == <<"B", "e", "i", "j", "i", "n", "g">>
Peking == <<"P", "e", "k", "i", "n", "g">>
BeijingZh == <<"U+5317", "U+4EAC">>
Shanghai == <<"S", "h", "a", "n", "g", "h", "a", "i">>
ShanghaiZh == <<"U+4E0A", "U+6D77">>
Guangzhou == <<"G", "u", "a", "n", "g", "z", "h", "o", "u">>
Canton == <<"C", "a", "n", "t", "o", "n">>
GuangzhouZh == <<"U+5E7F", "U+5DDE">>
\* builtinAliases: normalized name -> the names of the same city
builtinAliases ==
    [k \in {ToLower(Beijing), ToLower(Shanghai), ToLower(Guangzhou)} |->
        IF k = ToLower(Beijing) THEN <<BeijingZh, Beijing, Peking>>
        ELSE IF k = ToLower(Shanghai) THEN <<ShanghaiZh, Shanghai>>
        ELSE <<GuangzhouZh, Guangzhou, Canton>>]

\* ---- time ----
\* An instant is [s, ns]: seconds since 2025-01-01T00:00:00Z and nanoseconds within
\* the second.  A duration has the same shape.
NsPerSec == 1000000000
At(s, ns) == [s |-> s, ns |-> ns]
\* t.Sub(u)
Sub(t, u) ==
    IF t.ns >= u.ns THEN At(t.s - u.s, t.ns - u.ns)
    ELSE At(t.s - u.s - 1, t.ns - u.ns + NsPerSec)
\* d > e on durations
DurGreater(d, e) == d.s > e.s \/ (d.s = e.s /\ d.ns > e.ns)
\* app.cacheTTL as newAstroApp sets it: 100 * 24 * time.Hour
cacheTTL == At(100 * 24 * 3600, 0)
\* The text of a time stamp: kind says what the string is: an RFC 3339 time (with
\* or without a fraction of a second), the empty string, or anything else.
Stamp(s, ns) == [kind |-> "rfc3339", s |-> s, ns |-> ns]
EmptyStamp == [kind |-> "empty", s |-> 0, ns |-> 0]
BadStamp == [kind |-> "other", s |-> 0, ns |-> 0]
\* t.Format(time.RFC3339): the layout has no fraction, so the nanoseconds are dropped
FormatRFC3339(t) == Stamp(t.s, 0)
\* time.Parse(time.RFC3339, text): a fraction in the text is accepted and kept
ParseRFC3339(text) ==
    IF text.kind = "rfc3339" THEN [ok |-> TRUE, t |-> At(text.s, text.ns)]
    ELSE [ok |-> FALSE, t |-> At(0, 0)]
\* time.LoadLocation(id): "" and "UTC" are UTC, "Local" is the local zone, any other
\* name must be in the zone database.
KnownZones == {"", "UTC", "Local", "Asia/Shanghai", "Europe/Paris"}
LoadLocationOk(id) == id \in KnownZones

\* An entry has the fields of CityCacheEntry.
EntryBeijing ==
    [City |-> <<"B", "j">>, Normalized |-> <<"b", "j">>, DisplayName |-> "Beijing, China",
     Lat |-> 39, Lon |-> 116, TimezoneID |-> "Asia/Shanghai",
     Aliases |-> << <<"B", "j">>, <<"P", "k">> >>, UpdatedAt |-> Stamp(0, 0)]
EntryParis ==
    [City |-> <<"p", "a">>, Normalized |-> <<"p", "a">>, DisplayName |-> "Paris, France",
     Lat |-> 48, Lon |-> 2, TimezoneID |-> "Europe/Paris",
     Aliases |-> << <<"p", "a">> >>, UpdatedAt |-> Stamp(31 * 24 * 3600, 0)]

\* CityCache: nilMap is TRUE when Entries is a nil map (then Entries is empty).
MakeCache(m) == [nilMap |-> FALSE, Entries |-> m]
NilCache == [nilMap |-> TRUE, Entries |-> <<>>]
EmptyCache == MakeCache(<<>>)                \* &CityCache{Entries: make(map...)}
DocB == MakeCache([k \in {EntryBeijing.Normalized} |-> EntryBeijing])
DocP == MakeCache([k \in {EntryParis.Normalized} |-> EntryParis])
DocBP == MakeCache([k \in {EntryBeijing.Normalized, EntryParis.Normalized} |->
                      IF k = EntryBeijing.Normalized THEN EntryBeijing ELSE EntryParis])
\* The document a process passes to saveCache: each process brings its own.
SaveDoc(p) == IF p % 3 = 1 THEN DocB ELSE IF p % 3 = 2 THEN DocBP ELSE DocP

\* Entries as the tests build them and as a cache file can hold them.
CityEntry(city, normalized, aliases, tz, updatedAt) ==
    [City |-> city, Normalized |-> normalized, DisplayName |-> "Beijing, China",
     Lat |-> 39, Lon |-> 116, TimezoneID |-> tz, Aliases |-> aliases, UpdatedAt |-> updatedAt]
OneEntry(key, e) == MakeCache([k \in {key} |-> e])
TwoEntries(k1, e1, k2, e2) == MakeCache([k \in {k1, k2} |-> IF k = k1 THEN e1 ELSE e2])
\* TestPrepareCity: "beijing" -> the city by its Chinese name, aliases Beijing and 北京
DocTest == OneEntry(ToLower(Beijing),
                    CityEntry(BeijingZh, ToLower(Beijing), <<Beijing, BeijingZh>>, "Asia/Shanghai", Stamp(0, 0)))
\* what prepareCity("Beijing") stores
DocOnline == OneEntry(ToLower(Beijing),
                      CityEntry(Beijing, ToLower(Beijing), <<Beijing, BeijingZh, Beijing, Peking>>,
                                "Asia/Shanghai", Stamp(0, 0)))
\* an entry stored under a key that is not its Normalized field
\* (TestPrepareCityInvalidTimezoneInCache has one, there with a bad zone)
DocMismatch == OneEntry(ToLower(Canton),
                        CityEntry(Beijing, ToLower(Beijing), <<Beijing>>, "Asia/Shanghai", Stamp(0, 0)))
\* two entries that answer to the same names
DocOverlap == TwoEntries(ToLower(Peking), CityEntry(Peking, ToLower(Peking), <<Peking>>, "UTC", Stamp(0, 0)),
                         ToLower(Beijing), CityEntry(Beijing, ToLower(Beijing), <<Beijing, Peking>>, "UTC", Stamp(0, 0)))
DocTwins == TwoEntries(ToLower(Shanghai), CityEntry(Shanghai, ToLower(Shanghai), <<Canton>>, "UTC", Stamp(0, 0)),
                       ToLower(Guangzhou), CityEntry(Guangzhou, ToLower(Guangzhou), <<Guangzhou, Canton>>, "UTC", Stamp(0, 0)))
\* a name with spaces and capitals inside the stored entry, no aliases
DocSpaced == OneEntry(ToLower(Peking), CityEntry(<<" ">> \o Peking, ToLower(Peking), <<>>, "UTC", EmptyStamp))
\* the entry of a city asked for by a name that is not UTF-8, as it is read back
DocReplaced == OneEntry(<<"U+FFFD">>, CityEntry(<<"U+FFFD">>, <<"U+FFFD">>, <<>>, "UTC", Stamp(0, 0)))

\* ---- encoding/json over CityCache ----
\* Bytes are a sequence of tokens; a strict prefix of a document is not a document.
Tok(t) == [t |-> t, k |-> <<>>, v |-> <<>>]
Open == Tok("{ entries: {")
Close == Tok("} }")
NullDoc == Tok("{ entries: null }")
NoEntries == Tok("{ }")
Junk == Tok("invalid json content")

\* A string as encoding/json writes it: bytes that are not UTF-8 become U+FFFD.
EncodeString(str) == [i \in 1..Len(str) |-> IF str[i] = "0xFF" THEN "U+FFFD" ELSE str[i]]
\* Mutant: the Aliases field is left out of the object (as with the tag json:"-").
EncodeEntryNoAliases(e) ==
    << <<"city", EncodeString(e.City)>>, <<"normalized", EncodeString(e.Normalized)>>,
       <<"display_name", e.DisplayName>>,
       <<"lat", e.Lat>>, <<"lon", e.Lon>>, <<"timezone_id", e.TimezoneID>> >>
    \o << <<"updated_at", e.UpdatedAt>> >>
\* The object of one entry: its fields in struct order, aliases dropped when empty.
EncodeEntry(e) ==
    << <<"city", EncodeString(e.City)>>, <<"normalized", EncodeString(e.Normalized)>>,
       <<"display_name", e.DisplayName>>,
       <<"lat", e.Lat>>, <<"lon", e.Lon>>, <<"timezone_id", e.TimezoneID>> >>
    \o (IF e.Aliases = <<>> THEN <<>>
        ELSE << <<"aliases", [i \in 1..Len(e.Aliases) |-> EncodeString(e.Aliases[i])]>> >>)
    \o << <<"updated_at", e.UpdatedAt>> >>
KV(k, e) == [t |-> "kv", k |-> EncodeString(k), v |-> EncodeEntry(e)]

\* The keys of a map in the order encoding/json writes them (sorted).
RECURSIVE SortedKeys(_)
SortedKeys(S) ==
    IF S = {} THEN <<>>
    ELSE LET m == CHOOSE x \in S : \A y \in S \ {x} : StrLess(x, y)
         IN <<m>> \o SortedKeys(S \ {m})

\* json.MarshalIndent(cache, "", "  ")
Marshal(cache) ==
    IF cache.nilMap THEN <<NullDoc>>
    ELSE LET ks == SortedKeys(DOMAIN cache.Entries)
         IN <<Open>> \o [i \in 1..Len(ks) |-> KV(ks[i], cache.Entries[ks[i]])] \o <<Close>>

\* One field of an entry object, or the zero value when the object lacks it.
Field(obj, name, zero) ==
    IF \E i \in 1..Len(obj) : obj[i][1] = name
    THEN obj[CHOOSE i \in 1..Len(obj) : obj[i][1] = name /\ \A j \in (i+1)..Len(obj) : obj[j][1] # name][2]
    ELSE zero
DecodeEntry(obj) ==
    [City |-> Field(obj, "city", <<>>), Normalized |-> Field(obj, "normalized", <<>>),
     DisplayName |-> Field(obj, "display_name", ""),
     Lat |-> Field(obj, "lat", 0), Lon |-> Field(obj, "lon", 0),
     TimezoneID |-> Field(obj, "timezone_id", ""),
     Aliases |-> Field(obj, "aliases", <<>>), UpdatedAt |-> Field(obj, "updated_at", EmptyStamp)]

\* json.Unmarshal(data, &cache) into a zero CityCache: ok is FALSE on a syntax error;
\* a key that occurs twice keeps its last value.
Unmarshal(data) ==
    LET n == Len(data)
        bad == [ok |-> FALSE, cache |-> NilCache]
    IN IF data = <<NoEntries>> \/ data = <<NullDoc>> THEN [ok |-> TRUE, cache |-> NilCache]
       ELSE IF n < 2 \/ data[1] # Open \/ data[n] # Close THEN bad
       ELSE IF \E i \in 2..(n-1) : data[i].t # "kv" THEN bad
       ELSE LET keys == {data[i].k : i \in 2..(n-1)}
                last(k) == CHOOSE i \in 2..(n-1) :
                              data[i].k = k /\ \A j \in (i+1)..(n-1) : data[j].k # k
            IN [ok |-> TRUE,
                cache |-> MakeCache([k \in keys |-> DecodeEntry(data[last(k)].v)])]

\* ---- findEntryInCache ----
\* CityCacheEntry{}
ZeroEntry ==
    [City |-> <<>>, Normalized |-> <<>>, DisplayName |-> "", Lat |-> 0, Lon |-> 0,
     TimezoneID |-> "", Aliases |-> <<>>, UpdatedAt |-> EmptyStamp]
\* Mutant: the scan compares the city name only and skips the aliases.
ScanMatchesCityOnly(e, key) == normalizeCityKey(e.City) = key
\* One pass of the scan: the entry's City, then each of its Aliases, normalized.
ScanMatches(e, key) ==
    \/ normalizeCityKey(e.City) = key
    \/ \E i \in 1..Len(e.Aliases) : normalizeCityKey(e.Aliases[i]) = key
\* Mutant: no key lookup; the scan also takes the entry stored under the key.
findEntryInCacheScanOnly(cache, city) ==
    LET key == normalizeCityKey(city)
        m == cache.Entries
        hits == {k \in DOMAIN m : k = key \/ ScanMatches(m[k], key)}
    IN IF hits # {} THEN {[e |-> m[k], ok |-> TRUE] : k \in hits}
       ELSE {[e |-> ZeroEntry, ok |-> FALSE]}
\* findEntryInCache(cache, city): the results the call can give.  The key lookup
\* comes first; the scan ranges over the map in an order Go does not fix and returns
\* at the first match, so each matching entry is a possible result.
findEntryInCache(cache, city) ==
    LET key == normalizeCityKey(city)
        m == cache.Entries
        hits == {k \in DOMAIN m : ScanMatches(m[k], key)}
    IN IF key \in DOMAIN m THEN {[e |-> m[key], ok |-> TRUE]}
       ELSE IF hits # {} THEN {[e |-> m[k], ok |-> TRUE] : k \in hits}
       ELSE {[e |-> ZeroEntry, ok |-> FALSE]}

\* ---- prepareCity: the cached path ----
\* CityContext without Loc (the loaded zone of TZID); nil is TRUE for a nil pointer.
NilContext ==
    [nil |-> TRUE, City |-> <<>>, DisplayName |-> "", Lat |-> 0, Lon |-> 0, TZID |-> "",
     Now |-> At(0, 0)]
\* Mutant: the context is named after the query instead of the entry.
ContextOfQuery(city, entry, now) ==
    [nil |-> FALSE, City |-> city, DisplayName |-> entry.DisplayName, Lat |-> entry.Lat,
     Lon |-> entry.Lon, TZID |-> entry.TimezoneID, Now |-> now]
\* &CityContext{City: entry.City, ...} of a cache hit
ContextOf(city, entry, now) ==
    [nil |-> FALSE, City |-> entry.City, DisplayName |-> entry.DisplayName, Lat |-> entry.Lat,
     Lon |-> entry.Lon, TZID |-> entry.TimezoneID, Now |-> now]
\* Mutant: the boundary belongs to the stale side (elapsed >= TTL).
ExpiredAtBoundary(entry, now) ==
    IF entry.UpdatedAt.kind = "empty" THEN TRUE
    ELSE LET r == ParseRFC3339(entry.UpdatedAt)
         IN IF r.ok THEN ~DurGreater(cacheTTL, Sub(now, r.t)) ELSE TRUE
\* Mutant: an entry never expires.
ExpiredNever(entry, now) == FALSE
\* expired: true unless UpdatedAt is a time no more than cacheTTL before now
Expired(entry, now) ==
    IF entry.UpdatedAt.kind = "empty" THEN TRUE
    ELSE LET r == ParseRFC3339(entry.UpdatedAt)
         IN IF r.ok THEN DurGreater(Sub(now, r.t), cacheTTL) ELSE TRUE
\* Mutant: a miss in offline mode goes on to the geocoder like any other miss.
PrepareCachedOnlineOnMiss(r, city, offline, now) ==
    LET back(c, e) == [ret |-> TRUE, cc |-> c, err |-> e]
    IN IF r.ok /\ Expired(r.e, now) /\ offline THEN back(NilContext, "offline: expired")
       ELSE IF r.ok /\ ~Expired(r.e, now)
            THEN IF LoadLocationOk(r.e.TimezoneID)
                 THEN back(ContextOf(city, r.e, now), "nil")
                 ELSE back(NilContext, "cached timezone")
       ELSE [ret |-> FALSE, cc |-> NilContext, err |-> "nil"]
\* prepareCity from the result r of findEntryInCache up to the network: ret says
\* whether it returns there, with ctx and err; otherwise it goes on to the geocoder.
\* now is the clock as read for the freshness check; the step that returns the
\* context reads the clock again for ctx.Now.
PrepareCached(r, city, offline, now) ==
    LET back(c, e) == [ret |-> TRUE, cc |-> c, err |-> e]
    IN IF r.ok /\ Expired(r.e, now) /\ offline THEN back(NilContext, "offline: expired")
       ELSE IF r.ok /\ ~Expired(r.e, now)
            THEN IF LoadLocationOk(r.e.TimezoneID)
                 THEN back(ContextOf(city, r.e, now), "nil")
                 ELSE back(NilContext, "cached timezone")
       ELSE IF offline THEN back(NilContext, "offline: not cached")
       ELSE [ret |-> FALSE, cc |-> NilContext, err |-> "nil"]

\* ---- the TUI model (tuiModel) ----
\* tuiStep
stepMain == 0
stepDayInput == 1
stepRangeFromInput == 2
stepRangeToInput == 3
stepDone == 4
\* the lists newTuiModel gives every model
modes == <<"Year", "Day", "Range">>
formats == <<"txt", "csv", "json", "excel">>
\* the messages handleEnter leaves in errMsg
ErrNoCity == "enter a city name or have a cached city"
ErrNoDate == "the date must not be empty"
ErrNoFrom == "the start date must not be empty"
ErrNoTo == "the end date must not be empty"

\* tea.KeyMsg.String(): the name of a named key, the rune of a rune key
KeyNames == {"ctrl+c", "esc", "enter", "backspace", "ctrl+h", "left", "right", "up", "down", "tab"}
Runes == {"t", "h", " ", "U+5317"}
Keys == KeyNames \cup Runes
\* len(msg.String()): its length in bytes
StringLen(key) ==
    CASE key = "up" -> 2
      [] key \in {"esc", "tab", "U+5317"} -> 3
      [] key \in {"left", "down"} -> 4
      [] key \in {"enter", "right"} -> 5
      [] key \in {"ctrl+c", "ctrl+h"} -> 6
      [] key = "backspace" -> 9
      [] OTHER -> 1

\* fmt.Sprintf("%s (%s)", e.City, e.TimezoneID); the zone name is one token
CachedKey(e) == e.City \o <<" ", "(", e.TimezoneID, ")">>
\* the orders in which a range over a map can visit the keys S
Orders(S) == {o \in [1..Cardinality(S) -> S] : \A i, j \in DOMAIN o : i # j => o[i] # o[j]}
\* newTuiModel(cache): cachedKeys in the order the range over cache.Entries took
newTuiModel(cache) ==
    {[step |-> stepMain, input |-> <<>>,
      cachedKeys |-> [i \in DOMAIN o |-> CachedKey(cache.Entries[o[i]])],
      chosenCity |-> <<>>, modeIndex |-> 0, modes |-> modes, formatIndex |-> 0, formats |-> formats,
      dayDate |-> <<>>, rangeFrom |-> <<>>, rangeTo |-> <<>>, errMsg |-> "", quitting |-> FALSE] :
        o \in Orders(DOMAIN cache.Entries)}

\* strings.Index(str, sub): the offset of the first sub in str, or -1
Index(str, sub) ==
    LET at == {i \in 0..(Len(str) - Len(sub)) : SubSeq(str, i + 1, i + Len(sub)) = sub}
    IN IF at = {} THEN -1 ELSE CHOOSE i \in at : \A j \in at : i <= j

\* Mutant: the index may go one past the last element.
LastIndexPast(list) == Len(list)
\* len(list)-1
LastIndex(list) == Len(list) - 1

\* Mutant: Range mode is done after the start date.
NextStepSkipsTo(step, mode) ==
    IF step = stepMain
    THEN (IF mode = "Year" THEN stepDone ELSE IF mode = "Day" THEN stepDayInput ELSE stepRangeFromInput)
    ELSE stepDone
\* the step an accepted Enter leads to
NextStep(step, mode) ==
    IF step = stepMain
    THEN (IF mode = "Year" THEN stepDone ELSE IF mode = "Day" THEN stepDayInput ELSE stepRangeFromInput)
    ELSE IF step = stepRangeFromInput THEN stepRangeToInput
    ELSE stepDone

\* what Update and handleEnter return: the model and tea.Quit or nil
Ret(m, cmd) == [m |-> m, cmd |-> cmd]
\* handleEnter: the action of Enter at the current step
handleEnter(m) ==
    LET text == TrimSpace(m.input)
        to == NextStep(m.step, m.modes[m.modeIndex + 1])
        done(n) == IF to = stepDone THEN Ret([n EXCEPT !.step = to, !.quitting = TRUE], "quit")
                   ELSE Ret([n EXCEPT !.step = to, !.input = <<>>], "nil")
    IN IF m.step = stepMain
       THEN LET first == m.cachedKeys[1]
                idx == Index(first, <<" ", "(">>)
                city == IF text = <<>> /\ Len(m.cachedKeys) > 0
                        THEN (IF idx > 0 THEN SubSeq(first, 1, idx) ELSE first)
                        ELSE text
            IN IF city = <<>>
               THEN Ret([m EXCEPT !.errMsg = ErrNoCity], "nil")
               ELSE done([m EXCEPT !.errMsg = "", !.chosenCity = city])
       ELSE IF m.step = stepDayInput
       THEN IF text = <<>> THEN Ret([m EXCEPT !.errMsg = ErrNoDate], "nil")
            ELSE done([m EXCEPT !.errMsg = "", !.dayDate = text])
       ELSE IF m.step = stepRangeFromInput
       THEN IF text = <<>> THEN Ret([m EXCEPT !.errMsg = ErrNoFrom], "nil")
            ELSE done([m EXCEPT !.errMsg = "", !.rangeFrom = text])
       ELSE IF m.step = stepRangeToInput
       THEN IF text = <<>> THEN Ret([m EXCEPT !.errMsg = ErrNoTo], "nil")
            ELSE done([m EXCEPT !.errMsg = "", !.rangeTo = text])
       ELSE Ret(m, "nil")

\* Update for a tea.KeyMsg whose String() is key
Update(m, key) ==
    IF key \in {"ctrl+c", "esc"} THEN Ret([m EXCEPT !.quitting = TRUE], "quit")
    ELSE IF key = "enter" THEN handleEnter(m)
    ELSE IF key \in {"backspace", "ctrl+h"}
    THEN Ret(IF Len(m.input) > 0 THEN [m EXCEPT !.input = SubSeq(m.input, 1, Len(m.input) - 1)] ELSE m, "nil")
    ELSE IF key \in {"left", "h"}
    THEN Ret(IF m.step = stepMain /\ m.modeIndex > 0 THEN [m EXCEPT !.modeIndex = @ - 1] ELSE m, "nil")
    ELSE IF key \in {"right", "l"}
    THEN Ret(IF m.step = stepMain /\ m.modeIndex < LastIndex(m.modes) THEN [m EXCEPT !.modeIndex = @ + 1] ELSE m, "nil")
    ELSE IF key \in {"up", "k"}
    THEN Ret(IF m.step = stepMain /\ m.formatIndex > 0 THEN [m EXCEPT !.formatIndex = @ - 1] ELSE m, "nil")
    ELSE IF key \in {"down", "j"}
    THEN Ret(IF m.step = stepMain /\ m.formatIndex < LastIndex(m.formats) THEN [m EXCEPT !.formatIndex = @ + 1] ELSE m, "nil")
    ELSE Ret(IF StringLen(key) = 1 THEN [m EXCEPT !.input = @ \o <<key>>] ELSE m, "nil")

\* the caches a TUI starts from: empty, one entry, a name with a space in front,
\* an entry without a name
TuiCaches ==
    {EmptyCache, DocTest, DocSpaced,
     OneEntry(<<>>, CityEntry(<<>>, <<>>, <<>>, "UTC", EmptyStamp))}
\* the program at its start: no command returned yet; typed is
\* history: the characters typed at the current prompt, less those taken back
TuiStart(m) == [m |-> m, cmd |-> "nil", typed |-> <<>>]

\* ---- state ----
VARIABLES
    dir,      \* the cache directory: name -> inode id, or NoFile
    inodes,   \* inode id -> [used, bytes, readable, pid]
    proc,     \* per process: the call in progress, its locals and its last result
    calls,    \* calls started so far
    faults,   \* failures and crashes injected so far
    orig,     \* history: the backing file as it was before any call
    saved,    \* history: the documents passed to saveCache so far
    clock,    \* the wall clock: the instant time.Now() returns, and app.now() with it
              \* (newAstroApp sets now: time.Now)
    tui       \* the TUI program: its tuiModel and the command Update returned last
vars == <<dir, inodes, proc, calls, faults, orig, saved, clock, tui>>

\* ---- the file system ----
\* src is history: <<d>> for a file a saveCache(d) created, <<>> for any other.
FreeInode == [used |-> FALSE, bytes |-> <<>>, readable |-> TRUE, pid |-> 0, src |-> <<>>]
NewFile(bytes) == [used |-> TRUE, bytes |-> bytes, readable |-> TRUE, pid |-> 0, src |-> <<>>]
\* The file a name leads to (FreeInode when the name is absent).
FileAt(d, n, name) == IF d[name] = NoFile THEN FreeInode ELSE n[d[name]]
Exists(name) == dir[name] # NoFile
\* The lowest free inode id.
FreshIno == CHOOSE i \in InoIds : ~inodes[i].used /\ \A j \in 1..(i-1) : inodes[j].used
\* The temporary name os.CreateTemp settles on: one the directory does not hold.
FreshTmp == CHOOSE t \in TmpNames : dir[t] = NoFile /\ \A u \in TmpNames : u[2] < t[2] => dir[u] # NoFile
\* An inode lives while a name or an open descriptor refers to it.
Collect(d, n, pr) ==
    [i \in InoIds |->
        IF (\E name \in Names : d[name] = i) \/ (\E q \in Procs : pr[q].fd = i)
        THEN n[i] ELSE FreeInode]
\* os.Remove(name): an absent name is an error the callers ignore.
Unlink(d, name) == [d EXCEPT ![name] = NoFile]

\* ---- processes ----
\* pc is the next step of the call in progress ("idle" between calls); op, err, out
\* and data keep the last call's result until the next call starts.
IdleProc ==
    [alive |-> TRUE, pc |-> "idle", op |-> "none", arg |-> NilCache, data |-> <<>>,
     ctx |-> "none", tick |-> FALSE, unlock |-> "none", tmp |-> NoName, fd |-> NoFile,
     err |-> "nil", out |-> NilCache,
     job |-> "none", city |-> <<>>, offline |-> FALSE, now |-> At(0, 0),
     hit |-> [e |-> ZeroEntry, ok |-> FALSE], cc |-> NilContext, http |-> FALSE,
     net |-> "none", freed |-> FALSE,
     waited |-> TRUE, late |-> 0, snap |-> FreeInode, follows |-> FALSE]
AcqPcs == {"acq_open", "acq_ctxerr", "acq_select"}
\* from os.CreateTemp up to and including os.Rename
WritePcs == {"save_tmp", "save_write", "save_sync", "save_close", "save_rename"}
Running(p) == proc[p].alive /\ proc[p].pc # "idle"
\* Processes are alike: they are numbered in the order of their first call.
Idle(p) ==
    /\ proc[p].alive /\ proc[p].pc = "idle"
    /\ IF p = 1 THEN TRUE ELSE proc[p - 1].op # "none"
Set(p, r) == proc' = [proc EXCEPT ![p] = r]
\* A call starts: the previous result is dropped.
Start(p, op) ==
    [IdleProc EXCEPT !.op = op, !.unlock = proc[p].unlock, !.freed = proc[p].freed]

\* the backing file before any call: missing, not JSON, or a document
InitFiles == {FreeInode, NewFile(<<Junk>>), NewFile(Marshal(DocP))}
\* every kind of backing file loadCache can meet: also unreadable, entries absent or
\* null, an empty map, a document cut short
LoadFiles ==
    InitFiles \cup
    {[NewFile(Marshal(DocP)) EXCEPT !.readable = FALSE],
     NewFile(<<NoEntries>>), NewFile(<<NullDoc>>), NewFile(Marshal(EmptyCache)),
     NewFile(Marshal(DocBP)), NewFile(SubSeq(Marshal(DocBP), 1, 2)), NewFile(<<>>),
     NewFile(Marshal(DocB)), NewFile(<<Open>>), NewFile(<<Open, Junk, Close>>),
     [NewFile(<<Junk>>) EXCEPT !.readable = FALSE], NewFile(<<NoEntries, Junk>>)}

\* The state before any call: the backing file is one of files, the clock one of times.
InitDisk(files, times) ==
    \E f \in files, t \in times :
        /\ dir = [name \in Names |-> IF name = CachePath /\ f.used THEN 1 ELSE NoFile]
        /\ inodes = [i \in InoIds |-> IF i = 1 THEN f ELSE FreeInode]
        /\ proc = [p \in Procs |-> IdleProc]
        /\ calls = 0
        /\ faults = 0
        /\ orig = f
        /\ saved = {}
        /\ clock = t

\* no TUI runs: its model stays as newTuiModel made it
InitAt(files, times) ==
    /\ InitDisk(files, times)
    /\ tui \in {TuiStart(m) : m \in newTuiModel(EmptyCache)}
InitWith(files) == InitAt(files, {At(0, 0)})

Init == InitWith(InitFiles)

\* ---- acquireFileLock ----
\* Mutant: O_EXCL left out, so an existing lock file is opened as well.
ExclCreateOkNoExcl(name) == TRUE
\* Mutant: a lock file whose writer is dead counts as absent.
ExclCreateOkStale(name) == dir[name] = NoFile \/ ~proc[inodes[dir[name]].pid].alive
\* os.OpenFile(lockPath, O_CREATE|O_EXCL|O_WRONLY): succeeds only on an absent name.
ExclCreateOk(name) == dir[name] = NoFile
\* ctx.Err() != nil
CtxErr(p) == proc[p].ctx = "done"
\* Mutant: the closure removes nothing.
ReleaseFnKeeps(d) == d
\* The closure acquireFileLock returns: os.Remove(lockPath), error ignored.
ReleaseFn(d) == Unlink(d, LockPath)

\* acquireFileLock returns (release, nil) to its caller.
AcquireOk(p) ==
    IF proc[p].op = "save"
    THEN [proc[p] EXCEPT !.pc = "save_tmp", !.unlock = "held", !.tick = FALSE,
                         !.ctx = "none", !.waited = TRUE, !.late = 0, !.snap = FileAt(dir, inodes, CachePath)]
    ELSE [proc[p] EXCEPT !.pc = "idle", !.unlock = "held", !.tick = FALSE,
                         !.ctx = "none", !.waited = TRUE, !.err = "nil",
                         !.late = IF CtxErr(p) THEN @ + 1 ELSE 0]
\* Mutant: saveCache goes on to write although the lock was not acquired.
AcquireFailIgnored(p) ==
    IF proc[p].op = "save"
    THEN [proc[p] EXCEPT !.pc = "save_tmp", !.tick = FALSE, !.ctx = "none",
                         !.waited = TRUE, !.late = 0,
                         !.snap = FileAt(dir, inodes, CachePath)]
    ELSE [proc[p] EXCEPT !.pc = "idle", !.tick = FALSE, !.ctx = "none", !.data = <<>>,
                         !.arg = NilCache, !.waited = TRUE, !.late = 0, !.err = "ctx"]
\* acquireFileLock returns (nil, ctx.Err()); saveCache wraps the error and returns it.
AcquireFail(p) ==
    [proc[p] EXCEPT !.pc = "idle", !.tick = FALSE, !.ctx = "none", !.data = <<>>,
                    !.arg = NilCache, !.waited = TRUE, !.late = 0,
                    !.err = IF proc[p].op = "save" THEN "lock: ctx" ELSE "ctx"]

\* Mutant: the loop looks at the context before it tries to create the lock file.
AcqOpenCtxFirst(p) ==
    /\ Running(p) /\ proc[p].pc = "acq_open"
    /\ IF CtxErr(p)
       THEN /\ Set(p, AcquireFail(p))
            /\ UNCHANGED <<dir, inodes>>
       ELSE IF ExclCreateOk(LockPath)
       THEN LET i == IF Exists(LockPath) THEN dir[LockPath] ELSE FreshIno
            IN /\ dir' = [dir EXCEPT ![LockPath] = i]
               /\ inodes' = [inodes EXCEPT ![i] = [NewFile(<<>>) EXCEPT !.pid = p]]
               /\ Set(p, AcquireOk(p))
       ELSE /\ Set(p, [proc[p] EXCEPT !.pc = "acq_ctxerr", !.waited = FALSE])
            /\ UNCHANGED <<dir, inodes>>
    /\ UNCHANGED <<calls, faults, orig, saved, clock, tui>>
\* One pass of the loop: the exclusive create, then pid=... written and the file closed.
AcqOpen(p) ==
    /\ Running(p) /\ proc[p].pc = "acq_open"
    /\ IF ExclCreateOk(LockPath)
       THEN LET i == IF Exists(LockPath) THEN dir[LockPath] ELSE FreshIno
            IN /\ dir' = [dir EXCEPT ![LockPath] = i]
               /\ inodes' = [inodes EXCEPT ![i] = [NewFile(<<>>) EXCEPT !.pid = p]]
               /\ Set(p, AcquireOk(p))
       ELSE /\ Set(p, [proc[p] EXCEPT !.pc = "acq_ctxerr", !.waited = FALSE,
                          !.late = IF CtxErr(p) /\ @ < 2 THEN @ + 1 ELSE @])
            /\ UNCHANGED <<dir, inodes>>
    /\ UNCHANGED <<calls, faults, orig, saved, clock, tui>>

\* Mutant: the check of ctx.Err() after a failed create is left out.
AcqCtxErrSkipped(p) ==
    /\ Running(p) /\ proc[p].pc = "acq_ctxerr"
    /\ Set(p, [proc[p] EXCEPT !.pc = "acq_select"])
    /\ UNCHANGED <<dir, inodes, calls, faults, orig, saved, clock, tui>>
\* Mutant: on a done context the lock file is taken for stale and removed.
AcqCtxErrBreaksLock(p) ==
    /\ Running(p) /\ proc[p].pc = "acq_ctxerr"
    /\ Set(p, IF CtxErr(p) THEN AcquireFail(p) ELSE [proc[p] EXCEPT !.pc = "acq_select"])
    /\ dir' = IF CtxErr(p) THEN Unlink(dir, LockPath) ELSE dir
    /\ inodes' = Collect(dir', inodes, proc)
    /\ UNCHANGED <<calls, faults, orig, saved, clock, tui>>
\* if ctx.Err() != nil { return nil, ctx.Err() }
AcqCtxErr(p) ==
    /\ Running(p) /\ proc[p].pc = "acq_ctxerr"
    /\ Set(p, IF CtxErr(p) THEN AcquireFail(p) ELSE [proc[p] EXCEPT !.pc = "acq_select"])
    /\ UNCHANGED <<dir, inodes, calls, faults, orig, saved, clock, tui>>

\* select { case <-ctx.Done(): return; case <-ticker.C: }: blocks until one is ready
\* and takes either when both are.
AcqSelect(p) ==
    /\ Running(p) /\ proc[p].pc = "acq_select"
    /\ \/ CtxErr(p) /\ Set(p, AcquireFail(p))
       \/ proc[p].tick /\ Set(p, [proc[p] EXCEPT !.pc = "acq_open", !.tick = FALSE,
                                                   !.waited = TRUE])
    /\ UNCHANGED <<dir, inodes, calls, faults, orig, saved, clock, tui>>

\* The 100 ms ticker fires; its channel holds one tick, a second one is dropped.
Tick(p) ==
    /\ Running(p) /\ proc[p].pc \in AcqPcs /\ ~proc[p].tick
    /\ Set(p, [proc[p] EXCEPT !.tick = TRUE])
    /\ UNCHANGED <<dir, inodes, calls, faults, orig, saved, clock, tui>>

\* The context's deadline passes, or its owner cancels it.
CtxDone(p) ==
    /\ Running(p) /\ proc[p].pc \in AcqPcs /\ proc[p].ctx = "live"
    /\ Set(p, [proc[p] EXCEPT !.ctx = "done"])
    /\ UNCHANGED <<dir, inodes, calls, faults, orig, saved, clock, tui>>

\* A caller (as TestAcquireFileLock) takes the lock directly: c is the context it
\* passes: nil or Background, one with a deadline ahead, or one already done.
AcquireCall(p, c) ==
    /\ Idle(p) /\ proc[p].unlock # "held" /\ calls < MaxLockCalls
    /\ Set(p, [Start(p, "acquire") EXCEPT !.pc = "acq_open", !.ctx = c])
    /\ calls' = calls + 1
    /\ UNCHANGED <<dir, inodes, faults, orig, saved, clock, tui>>

\* history: the lock file a release by p finds is one that another caller created
Foreign(p) == Exists(LockPath) /\ inodes[dir[LockPath]].pid # p
\* The holder calls the release function it was given.
ReleaseCall(p) ==
    /\ Idle(p) /\ proc[p].unlock = "held"
    /\ dir' = ReleaseFn(dir)
    /\ inodes' = Collect(dir', inodes, proc)
    /\ Set(p, [proc[p] EXCEPT !.unlock = "called", !.freed = @ \/ Foreign(p)])
    /\ UNCHANGED <<calls, faults, orig, saved, clock, tui>>

\* A caller calls the release function a second time.
ReleaseAgain(p) ==
    /\ Idle(p) /\ proc[p].unlock = "called"
    /\ faults < MaxFaults
    /\ faults' = faults + 1
    /\ dir' = ReleaseFn(dir)
    /\ inodes' = Collect(dir', inodes, proc)
    /\ Set(p, [proc[p] EXCEPT !.unlock = "again", !.freed = @ \/ Foreign(p)])
    /\ UNCHANGED <<calls, orig, saved, clock, tui>>

\* Somebody removes the lock file by hand, as a stale lock has to be removed.
ExternalRemove ==
    /\ Exists(LockPath)
    /\ faults < MaxFaults
    /\ faults' = faults + 1
    /\ dir' = Unlink(dir, LockPath)
    /\ inodes' = Collect(dir', inodes, proc)
    /\ UNCHANGED <<proc, calls, orig, saved, clock, tui>>

\* ---- loadCache ----
\* Mutant: the check for a nil Entries map is left out.
loadCacheResultNoNilCheck(readErr, data) ==
    IF readErr THEN EmptyCache
    ELSE LET u == Unmarshal(data)
         IN IF ~u.ok THEN EmptyCache ELSE u.cache
\* What loadCache returns for the outcome of os.ReadFile: never an error, never nil.
loadCacheResult(readErr, data) ==
    IF readErr THEN EmptyCache
    ELSE LET u == Unmarshal(data)
         IN IF ~u.ok THEN EmptyCache
            ELSE IF u.cache.nilMap THEN MakeCache(u.cache.Entries)
            ELSE u.cache

\* A writer that died between os.CreateTemp and os.Rename.
CrashedWriting(q) == ~proc[q].alive /\ proc[q].op = "save" /\ proc[q].pc \in WritePcs \ {"save_tmp"}

\* os.ReadFile opens the backing file; a missing or unreadable one ends the call.
LoadCall(p) ==
    /\ Idle(p) /\ calls < MaxCalls
    /\ LET f == FileAt(dir, inodes, CachePath)
           r == [Start(p, "load") EXCEPT !.follows = \E q \in Procs : CrashedWriting(q)]
       IN IF ~f.used \/ ~f.readable
          THEN Set(p, [r EXCEPT !.err = "read", !.out = loadCacheResult(TRUE, <<>>)])
          ELSE Set(p, [r EXCEPT !.pc = "load_read", !.fd = dir[CachePath]])
    /\ calls' = calls + 1
    /\ UNCHANGED <<dir, inodes, faults, orig, saved, clock, tui>>

\* os.ReadFile reads the open file to its end and closes it; then json.Unmarshal.
LoadRead(p) ==
    /\ Running(p) /\ proc[p].pc = "load_read"
    /\ LET data == inodes[proc[p].fd].bytes
       IN Set(p, [proc[p] EXCEPT !.pc = "idle", !.fd = NoFile, !.data = data,
                                 !.out = loadCacheResult(FALSE, data)])
    /\ inodes' = Collect(dir, inodes, proc')
    /\ UNCHANGED <<dir, calls, faults, orig, saved, clock, tui>>

\* ---- findEntryInCache on a loaded cache ----
\* the cache files the lookups run on
FindFiles ==
    {FreeInode, NewFile(<<Junk>>), NewFile(Marshal(EmptyCache)), NewFile(Marshal(DocBP)),
     NewFile(Marshal(DocTest)), NewFile(Marshal(DocOnline)), NewFile(Marshal(DocMismatch)),
     NewFile(Marshal(DocOverlap)), NewFile(Marshal(DocTwins)), NewFile(Marshal(DocSpaced)),
     NewFile(Marshal(DocReplaced))}
\* the names asked for: as stored, in other case, with spaces around or inside, empty,
\* not UTF-8
Queries ==
    {Beijing, ToLower(Beijing), BeijingZh, Peking, <<" ", "P", "E", "K", "I", "N", "G", " ", " ">>,
     Canton, ToLower(Canton), <<"B", "e", "i", " ", "j", "i", "n", "g">>, Shanghai, <<>>, <<" ">>,
     <<"0xFF">>}
\* A caller looks a name up in the cache loadCache gave it.
FindCall(p, q) ==
    /\ proc[p].alive /\ proc[p].pc = "idle" /\ proc[p].op = "load" /\ proc[p].job = "none"
    /\ calls < MaxCalls
    /\ \E r \in findEntryInCache(proc[p].out, q) :
          Set(p, [proc[p] EXCEPT !.op = "find", !.city = q, !.hit = r])
    /\ calls' = calls + 1
    /\ UNCHANGED <<dir, inodes, faults, orig, saved, clock, tui>>

\* ---- saveCache ----
\* Mutant: the document is written straight onto the backing file.
TempTargetInPlace == CachePath
\* The file os.CreateTemp(dir, "esunmoon-cache-*.tmp") creates and leaves open.
TempTarget == FreshTmp

\* saveCache up to the lock: json.MarshalIndent, os.MkdirAll (ok says whether it
\* succeeds), context.WithTimeout(5 s).
SaveCall(p, ok) ==
    /\ Idle(p) /\ proc[p].unlock # "held" /\ calls < MaxCalls
    /\ ok \/ faults < MaxFaults
    /\ Set(p, IF ok
              THEN [Start(p, "save") EXCEPT !.pc = "acq_open", !.arg = SaveDoc(p),
                                            !.data = Marshal(SaveDoc(p)), !.ctx = "live"]
              ELSE [Start(p, "save") EXCEPT !.err = "mkdir"])
    /\ calls' = calls + 1
    /\ faults' = IF ok THEN faults ELSE faults + 1
    /\ saved' = saved \cup {SaveDoc(p)}
    /\ UNCHANGED <<dir, inodes, orig, clock, tui>>

\* saveCache(d) for a document the caller built: the same steps up to the lock
SaveDocCall(p, d) ==
    /\ Idle(p) /\ proc[p].unlock # "held" /\ calls < MaxCalls
    /\ Set(p, [Start(p, "save") EXCEPT !.pc = "acq_open", !.arg = d,
                                       !.data = Marshal(d), !.ctx = "live"])
    /\ calls' = calls + 1
    /\ saved' = saved \cup {d}
    /\ UNCHANGED <<dir, inodes, faults, orig, clock, tui>>

\* A step of the atomic write fails: the error is kept for the return.
Fails(p, err, next) ==
    /\ faults < MaxFaults
    /\ faults' = faults + 1
    /\ Set(p, [proc[p] EXCEPT !.err = err, !.pc = next])

\* tmpFile, err := os.CreateTemp(...)
SaveCreateTemp(p) ==
    /\ Running(p) /\ proc[p].pc = "save_tmp"
    /\ \/ LET t == TempTarget
              i == IF Exists(t) THEN dir[t] ELSE FreshIno
          IN /\ dir' = [dir EXCEPT ![t] = i]
             /\ inodes' = [inodes EXCEPT ![i] = [NewFile(<<>>) EXCEPT !.src = <<proc[p].arg>>]]
             /\ Set(p, [proc[p] EXCEPT !.pc = "save_write", !.tmp = t, !.fd = i])
             /\ UNCHANGED faults
       \/ Fails(p, "createtemp", "save_unlock") /\ UNCHANGED <<dir, inodes>>
    /\ UNCHANGED <<calls, orig, saved, clock, tui>>

\* tmpFile.Write(data): the bytes reach the file piece by piece.
SaveWrite(p) ==
    /\ Running(p) /\ proc[p].pc = "save_write"
    /\ LET i == proc[p].fd
           done == Len(inodes[i].bytes)
           all == Len(proc[p].data)
       IN \/ \E n \in 1..(all - done) :
                /\ inodes' = [inodes EXCEPT ![i].bytes = @ \o SubSeq(proc[p].data, done + 1, done + n)]
                /\ Set(p, [proc[p] EXCEPT !.pc = IF done + n = all THEN "save_sync" ELSE @])
                /\ UNCHANGED faults
          \/ Fails(p, "write", "save_cleanup") /\ UNCHANGED inodes
    /\ UNCHANGED <<dir, calls, orig, saved, clock, tui>>

\* tmpFile.Sync()
SaveSync(p) ==
    /\ Running(p) /\ proc[p].pc = "save_sync"
    /\ \/ Set(p, [proc[p] EXCEPT !.pc = "save_close"]) /\ UNCHANGED faults
       \/ Fails(p, "sync", "save_cleanup")
    /\ UNCHANGED <<dir, inodes, calls, orig, saved, clock, tui>>

\* tmpFile.Close(): the descriptor is gone whether or not Close reports an error.
SaveClose(p) ==
    /\ Running(p) /\ proc[p].pc = "save_close"
    /\ \/ /\ Set(p, [proc[p] EXCEPT !.pc = "save_rename", !.fd = NoFile])
          /\ UNCHANGED faults
       \/ /\ faults < MaxFaults
          /\ faults' = faults + 1
          /\ Set(p, [proc[p] EXCEPT !.err = "close", !.pc = "save_cleanup", !.fd = NoFile])
    /\ UNCHANGED <<dir, inodes, calls, orig, saved, clock, tui>>

\* os.Rename(tmpName, path): the name changes hands in one step.
SaveRename(p) ==
    /\ Running(p) /\ proc[p].pc = "save_rename"
    /\ \/ /\ dir' = [dir EXCEPT ![CachePath] = dir[proc[p].tmp], ![proc[p].tmp] = NoFile]
          /\ inodes' = Collect(dir', inodes, proc)
          /\ Set(p, [proc[p] EXCEPT !.pc = "save_unlock"])
          /\ UNCHANGED faults
       \/ Fails(p, "rename", "save_cleanup") /\ UNCHANGED <<dir, inodes>>
    /\ UNCHANGED <<calls, orig, saved, clock, tui>>

\* Mutant: the failure paths close the temporary file and leave it in place.
SaveCleanupKeeps(p) ==
    /\ Running(p) /\ proc[p].pc = "save_cleanup"
    /\ Set(p, [proc[p] EXCEPT !.pc = "save_unlock", !.fd = NoFile])
    /\ inodes' = Collect(dir, inodes, proc')
    /\ UNCHANGED <<dir, calls, faults, orig, saved, clock, tui>>
\* The failure paths: tmpFile.Close() where still open, then os.Remove(tmpName).
SaveCleanup(p) ==
    /\ Running(p) /\ proc[p].pc = "save_cleanup"
    /\ dir' = Unlink(dir, proc[p].tmp)
    /\ Set(p, [proc[p] EXCEPT !.pc = "save_unlock", !.fd = NoFile])
    /\ inodes' = Collect(dir', inodes, proc')
    /\ UNCHANGED <<calls, faults, orig, saved, clock, tui>>

\* Mutant: unlock() is called at the end of the success path only, not deferred.
SaveUnlockOnSuccessOnly(p) ==
    /\ Running(p) /\ proc[p].pc = "save_unlock"
    /\ dir' = IF proc[p].err = "nil" THEN ReleaseFn(dir) ELSE dir
    /\ inodes' = Collect(dir', inodes, proc)
    /\ Set(p, [proc[p] EXCEPT !.pc = "idle", !.unlock = IF proc[p].err = "nil" THEN "called" ELSE @,
                              !.data = <<>>, !.arg = NilCache, !.tmp = NoName, !.snap = FreeInode])
    /\ UNCHANGED <<calls, faults, orig, saved, clock, tui>>
\* The deferred unlock() and cancel() run and saveCache returns.
SaveUnlock(p) ==
    /\ Running(p) /\ proc[p].pc = "save_unlock"
    /\ dir' = ReleaseFn(dir)
    /\ inodes' = Collect(dir', inodes, proc)
    /\ Set(p, [proc[p] EXCEPT !.pc = "idle", !.unlock = "called", !.data = <<>>,
                              !.arg = NilCache, !.tmp = NoName, !.snap = FreeInode,
                              !.freed = @ \/ Foreign(p)])
    /\ UNCHANGED <<calls, faults, orig, saved, clock, tui>>

\* ---- prepareCity ----
\* What the geocoder and the time zone lookup answer for a name (collaborators
\* outside the cache): the place, by the name asked for.
Place(city) ==
    LET k == normalizeCityKey(city)
    IN IF k \in {ToLower(Beijing), ToLower(Peking), BeijingZh}
       THEN [DisplayName |-> "Beijing, China", Lat |-> 39, Lon |-> 116, TZID |-> "Asia/Shanghai"]
       ELSE IF k \in {ToLower(Shanghai), ShanghaiZh}
       THEN [DisplayName |-> "Shanghai, China", Lat |-> 31, Lon |-> 121, TZID |-> "Asia/Shanghai"]
       ELSE [DisplayName |-> "Guangzhou, China", Lat |-> 23, Lon |-> 113, TZID |-> "Asia/Shanghai"]
\* The entry prepareCity builds after a successful lookup: the name as typed, its
\* normalized form, the name and any built-in aliases, time.Now() in RFC 3339.
OnlineEntry(city, place, now) ==
    [City |-> city, Normalized |-> normalizeCityKey(city), DisplayName |-> place.DisplayName,
     Lat |-> place.Lat, Lon |-> place.Lon, TimezoneID |-> place.TZID,
     Aliases |-> <<city>> \o (IF normalizeCityKey(city) \in DOMAIN builtinAliases
                              THEN builtinAliases[normalizeCityKey(city)] ELSE <<>>),
     UpdatedAt |-> FormatRFC3339(now)]
\* Mutant: the entry is stored under the name as typed.
UpsertKeyAsTyped(entry) == entry.City
\* cache.Entries[entry.Normalized] = entry: the key of the upsert
UpsertKey(entry) == entry.Normalized
\* Mutant: the entries that answer to the new entry's name make way for it.
UpsertReplacesMatched(cache, entry) ==
    LET keep == {k \in DOMAIN cache.Entries : ~ScanMatches(cache.Entries[k], entry.Normalized)}
    IN MakeCache([k \in keep \cup {entry.Normalized} |->
                     IF k = entry.Normalized THEN entry ELSE cache.Entries[k]])
Upsert(cache, entry) ==
    MakeCache([k \in DOMAIN cache.Entries \cup {UpsertKey(entry)} |->
                  IF k = UpsertKey(entry) THEN entry ELSE cache.Entries[k]])

\* prepareCity(city, offline) up to os.ReadFile in loadCache; an empty name ends it.
PrepareCall(p, city, offline) ==
    /\ Idle(p) /\ proc[p].job # "prepare" /\ proc[p].unlock # "held" /\ calls < MaxCityCalls
    /\ LET f == FileAt(dir, inodes, CachePath)
           r == [Start(p, "load") EXCEPT !.job = "prepare", !.city = city, !.offline = offline]
       IN IF city = <<>>
          THEN Set(p, [r EXCEPT !.op = "prepare", !.job = "prepared", !.err = "no city"])
          ELSE IF ~f.used \/ ~f.readable
          THEN Set(p, [r EXCEPT !.out = loadCacheResult(TRUE, <<>>)])
          ELSE Set(p, [r EXCEPT !.pc = "load_read", !.fd = dir[CachePath]])
    /\ calls' = calls + 1
    /\ UNCHANGED <<dir, inodes, faults, orig, saved, clock, tui>>

\* Mutant: the error of loadTZ is not looked at.
NetFailsLoadTZIgnored(net) == net \in {"geocode", "tz"}
\* err != nil after geocodeCity, tzLookup or loadTZ: net names the step that failed
NetFails(net) == net # "ok"

\* where prepareCity stands between its readings of the clock
PrepPcs == {"prep_cached", "prep_net", "prep_stamp"}

\* prepareCity from findEntryInCache to the end of the cached path: the clock is read
\* for the freshness check; the offline errors and a cached zone that does not load
\* end the call, a fresh entry leads to the context, anything else to the geocoder.
PrepareResolve(p) ==
    /\ proc[p].alive /\ proc[p].job = "prepare" /\ proc[p].op = "load" /\ proc[p].pc = "idle"
    /\ \E r \in findEntryInCache(proc[p].out, proc[p].city) :
          LET c == PrepareCached(r, proc[p].city, proc[p].offline, clock)
              q == [proc[p] EXCEPT !.op = "prepare", !.hit = r, !.now = clock, !.err = "nil"]
          IN IF c.ret /\ c.cc.nil
             THEN Set(p, [q EXCEPT !.job = "prepared", !.cc = c.cc, !.err = c.err])
             ELSE IF c.ret
             THEN Set(p, [q EXCEPT !.pc = "prep_cached", !.cc = c.cc])
             ELSE Set(p, [q EXCEPT !.pc = "prep_net"])
    /\ UNCHANGED <<dir, inodes, calls, faults, orig, saved, clock, tui>>

\* The cached path after time.LoadLocation: the clock is read again for ctx.Now.
PrepareCachedNow(p) ==
    /\ proc[p].alive /\ proc[p].pc = "prep_cached"
    /\ Set(p, [proc[p] EXCEPT !.pc = "idle", !.job = "prepared", !.cc.Now = clock])
    /\ UNCHANGED <<dir, inodes, calls, faults, orig, saved, clock, tui>>

\* geocodeCity (no request for a blank name), tzLookup and loadTZ, any of which may
\* fail; then the clock is read for ctx.Now.
PrepareLookup(p) ==
    /\ proc[p].alive /\ proc[p].pc = "prep_net"
    /\ \E net \in {"ok", "geocode", "tz", "loadtz"} :
          LET back(e, h) == [proc[p] EXCEPT !.pc = "idle", !.job = "prepared", !.err = e, !.http = h]
              place == Place(proc[p].city)
          IN IF TrimSpace(proc[p].city) = <<>>
             THEN /\ net = "ok"
                  /\ Set(p, back("geocode", FALSE))
                  /\ UNCHANGED faults
             ELSE IF NetFails(net)
             THEN /\ faults < MaxFaults
                  /\ faults' = faults + 1
                  /\ Set(p, [back(net, TRUE) EXCEPT !.net = net])
             ELSE /\ Set(p, [proc[p] EXCEPT !.pc = "prep_stamp", !.net = net, !.http = TRUE,
                                             !.cc = [nil |-> FALSE, City |-> proc[p].city,
                                                     DisplayName |-> place.DisplayName,
                                                     Lat |-> place.Lat, Lon |-> place.Lon,
                                                     TZID |-> place.TZID, Now |-> clock]])
                  /\ UNCHANGED faults
    /\ UNCHANGED <<dir, inodes, calls, orig, saved, clock, tui>>

\* The new entry, stamped with time.Now(), the upsert, and saveCache up to the lock
\* (mkdir says whether os.MkdirAll succeeds).
PrepareStore(p) ==
    /\ proc[p].alive /\ proc[p].pc = "prep_stamp"
    /\ \E mkdir \in BOOLEAN :
          LET doc == Upsert(proc[p].out, OnlineEntry(proc[p].city, Place(proc[p].city), clock))
          IN /\ saved' = saved \cup {doc}
             /\ IF ~mkdir
                THEN /\ faults < MaxFaults
                     /\ faults' = faults + 1
                     /\ Set(p, [proc[p] EXCEPT !.pc = "idle", !.job = "prepared", !.cc = NilContext,
                                               !.err = "save: mkdir"])
                ELSE /\ Set(p, [proc[p] EXCEPT !.op = "save", !.pc = "acq_open", !.arg = doc,
                                               !.data = Marshal(doc), !.ctx = "live"])
                     /\ UNCHANGED faults
    /\ UNCHANGED <<dir, inodes, calls, orig, clock, tui>>

\* saveCache has returned: prepareCity returns the context, or the error wrapped.
PrepareReturn(p) ==
    /\ proc[p].alive /\ proc[p].job = "prepare" /\ proc[p].op = "save" /\ proc[p].pc = "idle"
    /\ Set(p, IF proc[p].err = "nil"
              THEN [proc[p] EXCEPT !.op = "prepare", !.job = "prepared"]
              ELSE [proc[p] EXCEPT !.op = "prepare", !.job = "prepared", !.cc = NilContext,
                                   !.err = "save"])
    /\ UNCHANGED <<dir, inodes, calls, faults, orig, saved, clock, tui>>

\* cache clear, confirmed or forced: os.Remove(path), without the lock
CacheClear(p) ==
    /\ Idle(p) /\ proc[p].job # "prepare" /\ proc[p].unlock # "held" /\ calls < MaxCityCalls
    /\ dir' = Unlink(dir, CachePath)
    /\ inodes' = Collect(dir', inodes, proc)
    /\ Set(p, [Start(p, "clear") EXCEPT !.err = IF Exists(CachePath) THEN "nil" ELSE "not exist"])
    /\ calls' = calls + 1
    /\ UNCHANGED <<faults, orig, saved, clock, tui>>

\* ---- the environment ----
\* A process that holds the lock dies where it stands: its descriptors close, its
\* files stay.  (A process without the lock leaves nothing behind when it dies.)
Crash(p) ==
    /\ proc[p].alive /\ proc[p].unlock = "held"
    /\ faults < MaxFaults
    /\ faults' = faults + 1
    /\ Set(p, [proc[p] EXCEPT !.alive = FALSE, !.fd = NoFile])
    /\ inodes' = Collect(dir, inodes, proc')
    /\ UNCHANGED <<dir, calls, orig, saved, clock, tui>>

\* Time passes: the wall clock reaches t.
Advance(t) ==
    /\ DurGreater(t, clock)
    /\ clock' = t
    /\ UNCHANGED <<dir, inodes, proc, calls, faults, orig, saved, tui>>

\* ---- the TUI program ----
\* The program passes a key message to Update and keeps the model it returns; cmd is
\* the command of the last call.  Update itself never looks at quitting, and the
\* tea.Quit it returned is a command for the event loop, so key messages may follow.
KeyMsg(key) ==
    /\ key \in Runes => Len(tui.typed) < MaxInput
    /\ LET r == Update(tui.m, key)
       IN tui' = [m |-> r.m, cmd |-> r.cmd,
                  typed |-> IF key \in Runes THEN tui.typed \o <<key>>
                            ELSE IF key \in {"backspace", "ctrl+h"}
                            THEN SubSeq(tui.typed, 1, Len(tui.typed) - 1)
                            ELSE IF r.m.step # tui.m.step THEN <<>>
                            ELSE tui.typed]
    /\ UNCHANGED <<dir, inodes, proc, calls, faults, orig, saved, clock>>

\* saveCache and loadCache calls of independent processes, crashes and I/O failures
Next ==
    \E p \in Procs :
        \/ LoadCall(p)
        \/ LoadRead(p)
        \/ \E ok \in BOOLEAN : SaveCall(p, ok)
        \/ AcqOpen(p)
        \/ AcqCtxErr(p)
        \/ AcqSelect(p)
        \/ Tick(p)
        \/ CtxDone(p)
        \/ SaveCreateTemp(p)
        \/ SaveWrite(p)
        \/ SaveSync(p)
        \/ SaveClose(p)
        \/ SaveRename(p)
        \/ SaveCleanup(p)
        \/ SaveUnlock(p)
        \/ Crash(p)

Spec == Init /\ [][Next]_vars

\* acquireFileLock and release calls of independent callers on one lock path
NextLock ==
    \E p \in Procs :
        \/ \E c \in {"background", "live", "done"} : AcquireCall(p, c)
        \/ ReleaseCall(p)
        \/ AcqOpen(p)
        \/ AcqCtxErr(p)
        \/ AcqSelect(p)
        \/ Tick(p)
        \/ CtxDone(p)
        \/ Crash(p)

SpecLock == InitWith({FreeInode}) /\ [][NextLock]_vars

\* the same callers when the lock file is also removed by others than its holder's
\* one release: a release function called twice, a lock file removed by hand
NextMisuse ==
    \/ \E p \in Procs :
          \/ \E c \in {"background", "done"} : AcquireCall(p, c)
          \/ ReleaseCall(p)
          \/ ReleaseAgain(p)
          \/ AcqOpen(p)
          \/ AcqCtxErr(p)
          \/ AcqSelect(p)
          \/ Tick(p)
    \/ ExternalRemove

SpecMisuse == InitWith({FreeInode}) /\ [][NextMisuse]_vars

\* The same, with what scheduling and the clock guarantee: a caller that can take the
\* next step of its polling loop takes it, and a deadline passes.
SpecLockFair ==
    /\ SpecLock
    /\ \A p \in Procs :
          /\ WF_vars(AcqOpen(p)) /\ WF_vars(AcqCtxErr(p)) /\ WF_vars(AcqSelect(p))
          /\ WF_vars(CtxDone(p))

\* loadCache calls over every kind of backing file
NextLoad ==
    \E p \in Procs :
        \/ LoadCall(p)
        \/ LoadRead(p)

SpecLoad == InitWith(LoadFiles) /\ [][NextLoad]_vars

\* loadCache, then findEntryInCache on what it returned
NextFind ==
    \E p \in Procs :
        \/ LoadCall(p)
        \/ LoadRead(p)
        \/ \E q \in Queries : FindCall(p, q)

SpecFind == InitWith(FindFiles) /\ [][NextFind]_vars

\* the instants around the expiry of an entry stamped at 0: the last nanosecond
\* before cacheTTL has passed, the boundary, the first nanosecond after, 101 days
Times ==
    {At(0, 0), At(cacheTTL.s - 1, NsPerSec - 1), cacheTTL, At(cacheTTL.s, 1),
     At(101 * 24 * 3600, 0)}
\* cache files for the cached path: entries fresh and old, stamped on a whole second
\* or with a fraction, without a time stamp, with one that is not a time, with a zone
\* that does not load, stored under another key; a file that is no cache
OfflineFiles ==
    {FreeInode, NewFile(<<Junk>>), NewFile(Marshal(DocTest)), NewFile(Marshal(DocOnline)),
     NewFile(Marshal(DocMismatch)), NewFile(Marshal(DocSpaced)),
     NewFile(Marshal(OneEntry(ToLower(Beijing),
         CityEntry(Beijing, ToLower(Beijing), <<Peking>>, "Asia/Shanghai", Stamp(0, 1))))),
     NewFile(Marshal(OneEntry(ToLower(Beijing),
         CityEntry(Beijing, ToLower(Beijing), <<Peking>>, "Asia/Shanghai", BadStamp)))),
     NewFile(Marshal(OneEntry(ToLower(Beijing),
         CityEntry(Beijing, ToLower(Beijing), <<Peking>>, "Invalid/Zone", Stamp(0, 0))))),
     NewFile(Marshal(OneEntry(<<>>,
         CityEntry(<<>>, <<>>, <<>>, "", Stamp(0, 0)))))}

\* prepareCity in offline mode over these files and instants, one call after the
\* other in one process (offline calls change nothing another call could see)
NextOffline ==
    \E p \in {1} :
        \/ \E q \in Queries : PrepareCall(p, q, TRUE)
        \/ LoadRead(p)
        \/ PrepareResolve(p)
        \/ PrepareCachedNow(p)
        \/ \E t \in Times : Advance(t)

SpecOffline == InitAt(OfflineFiles, Times) /\ [][NextOffline]_vars

\* the names typed in the concurrent runs: one city under three names, and another
CityQueries == {BeijingZh, Beijing, Peking, Shanghai}
\* prepareCity runs of independent processes, online and offline, starting without a
\* cache file, with cache clear, crashes, I/O failures and time passing
NextCity ==
    \/ \E p \in Procs :
        \/ \E q \in CityQueries, offline \in BOOLEAN : PrepareCall(p, q, offline)
        \/ LoadRead(p)
        \/ PrepareResolve(p)
        \/ PrepareCachedNow(p)
        \/ PrepareLookup(p)
        \/ PrepareStore(p)
        \/ PrepareReturn(p)
        \/ CacheClear(p)
        \/ AcqOpen(p)
        \/ AcqCtxErr(p)
        \/ AcqSelect(p)
        \/ Tick(p)
        \/ CtxDone(p)
        \/ SaveCreateTemp(p)
        \/ SaveWrite(p)
        \/ SaveSync(p)
        \/ SaveClose(p)
        \/ SaveRename(p)
        \/ SaveCleanup(p)
        \/ SaveUnlock(p)
        \/ Crash(p)
    \/ Advance(At(cacheTTL.s, 1))

SpecCity == InitWith({FreeInode}) /\ [][NextCity]_vars

\* the documents saved and read back: no entries (nil map, empty map), entries with
\* and without aliases, with an alias twice, in an order that is not the key order,
\* under a key that is not the Normalized field, with a name that is not UTF-8
TripDocs ==
    {NilCache, EmptyCache, DocB, DocBP, DocTest, DocOnline, DocMismatch, DocOverlap, DocSpaced,
     OneEntry(<<"0xFF">>, CityEntry(<<"0xFF", "a">>, <<"0xFF">>, << <<"0xFF", "a">> >>, "UTC", Stamp(0, 0)))}
\* saveCache of such a document and loadCache, one after the other in one process as
\* in TestSaveAndLoadCache, so that no other writer comes in between (and nobody
\* else holds the lock: acquireFileLock creates the lock file at its first attempt)
NextTrip ==
    \E p \in {1} :
        \/ \E d \in TripDocs : SaveDocCall(p, d)
        \/ LoadCall(p)
        \/ LoadRead(p)
        \/ AcqOpen(p)
        \/ Tick(p)
        \/ CtxDone(p)
        \/ SaveCreateTemp(p)
        \/ SaveWrite(p)
        \/ SaveSync(p)
        \/ SaveClose(p)
        \/ SaveRename(p)
        \/ SaveCleanup(p)
        \/ SaveUnlock(p)

SpecTrip == InitWith({FreeInode, NewFile(Marshal(DocP))}) /\ [][NextTrip]_vars

\* tuiCmd: a model made from a cache, then key messages in any order
NextTui == \E key \in Keys : KeyMsg(key)

SpecTui ==
    /\ InitDisk({FreeInode}, {At(0, 0)})
    /\ tui \in {TuiStart(m) : m \in UNION {newTuiModel(c) : c \in TuiCaches}}
    /\ [][NextTui]_vars

\* cache files an online run can find: none, one that is no cache, an entry for the
\* city under its English key with the other names as aliases, two entries
RefreshFiles ==
    {FreeInode, NewFile(<<Junk>>), NewFile(Marshal(DocTest)), NewFile(Marshal(DocOnline)),
     NewFile(Marshal(DocBP))}
\* the instants of the runs: the entries are new, or older than the TTL
RefreshTimes == {At(0, 0), At(101 * 24 * 3600, 0)}
\* the names asked for: the key of an entry, its aliases, another city, a blank name
RefreshQueries == {Beijing, Peking, BeijingZh, Shanghai, <<" ">>}
\* online prepareCity runs, one after the other in one process, with failures of the
\* collaborators and of the write (nobody else holds the lock)
NextRefresh ==
    \E p \in {1} :
        \/ \E q \in RefreshQueries : PrepareCall(p, q, FALSE)
        \/ \E t \in RefreshTimes : Advance(t)
        \/ LoadRead(p)
        \/ PrepareResolve(p)
        \/ PrepareCachedNow(p)
        \/ PrepareLookup(p)
        \/ PrepareStore(p)
        \/ PrepareReturn(p)
        \/ AcqOpen(p)
        \/ Tick(p)
        \/ CtxDone(p)
        \/ SaveCreateTemp(p)
        \/ SaveWrite(p)
        \/ SaveSync(p)
        \/ SaveClose(p)
        \/ SaveRename(p)
        \/ SaveCleanup(p)
        \/ SaveUnlock(p)

SpecRefresh == InitAt(RefreshFiles, RefreshTimes) /\ [][NextRefresh]_vars

\* the names of one city
AliasGroup == {BeijingZh, Beijing, Peking}
\* online prepareCity runs for names of that city, starting without a cache file
NextAlias ==
    \E p \in Procs :
        \/ \E q \in AliasGroup : PrepareCall(p, q, FALSE)
        \/ LoadRead(p)
        \/ PrepareResolve(p)
        \/ PrepareCachedNow(p)
        \/ PrepareLookup(p)
        \/ PrepareStore(p)
        \/ PrepareReturn(p)
        \/ AcqOpen(p)
        \/ AcqCtxErr(p)
        \/ AcqSelect(p)
        \/ Tick(p)
        \/ CtxDone(p)
        \/ SaveCreateTemp(p)
        \/ SaveWrite(p)
        \/ SaveSync(p)
        \/ SaveClose(p)
        \/ SaveRename(p)
        \/ SaveCleanup(p)
        \/ SaveUnlock(p)

SpecAlias == InitWith({FreeInode}) /\ [][NextAlias]_vars

\* ---- properties of the advisory lock ----
\* The lock file exists and p wrote it.
LockFileOf(p) == Exists(LockPath) /\ inodes[dir[LockPath]].pid = p
\* The callers between a successful acquireFileLock and their release.
Holders == {p \in Procs : proc[p].unlock = "held"}
\* p's acquireFileLock returns in this step.
AcquireReturns(p) == proc[p].pc \in AcqPcs /\ proc'[p].pc \notin AcqPcs /\ proc'[p].alive
\* p runs the exclusive create in this step.
Attempts(p) == proc[p].pc = "acq_open" /\ proc'[p].pc # "acq_open"
\* p calls its release function in this step.
Releases(p) == proc[p].unlock = "held" /\ proc'[p].unlock = "called"

\* C1: across all interleavings of acquireFileLock and release calls on one lock
\* path, at most one caller is between a successful acquire and its release, and an
\* exclusive create succeeds only when the lock file does not exist.
C1_MutualExclusion ==
    /\ [](Cardinality(Holders) <= 1)
    /\ [][\A p \in Procs :
            (proc[p].unlock # "held" /\ proc'[p].unlock = "held") => ~Exists(LockPath)]_vars
\* One caller holds the lock while another has just failed to create the lock file.
C1_Witness ==
    \E p, q \in Procs :
        /\ p # q /\ proc[p].unlock = "held"
        /\ proc[q].pc = "acq_ctxerr" /\ Exists(LockPath)

\* C2: while a successful acquireFileLock has not been released, another
\* acquireFileLock on the path that returns, returns the context's error and no
\* release function; a release leaves no lock file, and a create attempt that finds
\* none succeeds; and an acquireFileLock whose context has a deadline does return,
\* with the lock or with the context's error.
C2_HeldThenReleased ==
    /\ [][\A q \in Procs :
            /\ (AcquireReturns(q) /\ \E p \in Procs \ {q} : proc[p].unlock = "held")
                  => (proc'[q].err = "ctx" /\ proc'[q].unlock # "held")
            /\ Releases(q) => ~Exists(LockPath)'
            /\ (Attempts(q) /\ ~Exists(LockPath))
                  => (proc'[q].unlock = "held" /\ proc'[q].err = "nil" /\ Exists(LockPath)')]_vars
    /\ \A q \in Procs :
            (proc[q].pc \in AcqPcs /\ proc[q].ctx \in {"live", "done"})
                ~> (proc[q].pc = "idle" /\ (proc[q].unlock = "held" \/ proc[q].err = "ctx"))
\* The first holder has released, the caller whose three calls are counted holds the
\* lock anew, and no lock but the new one is left.
C2_Witness ==
    \E p, q \in Procs :
        /\ p # q /\ calls = 3
        /\ proc[p].unlock = "called" /\ proc[p].pc = "idle"
        /\ proc[q].unlock = "held" /\ proc[q].pc = "idle" /\ proc[q].err = "nil"

\* C9: once its context is done, a caller that finds the lock held makes at most one
\* more create attempt, is never left waiting for a tick, and returns, with nothing
\* but the context's error; and every failed attempt is followed by a wait in select
\* before the next one.
C9_PromptCancel ==
    /\ [](\A p \in Procs :
            (proc[p].alive /\ proc[p].pc \in AcqPcs) =>
                /\ proc[p].late <= 1
                /\ proc[p].pc = "acq_open" => proc[p].waited
                /\ CtxErr(p) => ENABLED (AcqOpen(p) \/ AcqCtxErr(p) \/ AcqSelect(p)))
    /\ \A p \in Procs :
            (proc[p].pc \in AcqPcs /\ CtxErr(p) /\ Exists(LockPath))
                ~> (proc[p].pc = "idle")
    /\ [][\A p \in Procs :
            (AcquireReturns(p) /\ proc'[p].unlock # "held")
                => (CtxErr(p) /\ proc'[p].err \in {"ctx", "lock: ctx"})]_vars
\* A caller whose context is done has made its one further attempt and failed.
C9_Witness ==
    \E p \in Procs :
        /\ proc[p].alive /\ proc[p].pc = "acq_ctxerr"
        /\ proc[p].late = 1 /\ proc[p].tick
        /\ \E q \in Procs \ {p} : proc[q].unlock = "held"

\* C29: acquireFileLock tries the exclusive create before it looks at its context: a
\* create attempt that finds no lock file acquires the lock and returns the release
\* function, whatever the state of the context; the context is looked at only after
\* an attempt that found the lock file in place, and only then is its error returned.
C29_CreateBeforeContext ==
    [][\A p \in Procs :
        /\ (Attempts(p) /\ ~Exists(LockPath)) =>
              (proc'[p].unlock = "held" /\ proc'[p].err = "nil" /\ LockFileOf(p)')
        /\ (proc[p].pc # "acq_ctxerr" /\ proc'[p].pc = "acq_ctxerr") =>
              (Attempts(p) /\ Exists(LockPath) /\ dir' = dir)
        /\ (AcquireReturns(p) /\ proc'[p].unlock # "held") =>
              (proc[p].pc \in {"acq_ctxerr", "acq_select"} /\ CtxErr(p)
                  /\ proc'[p].err \in {"ctx", "lock: ctx"})
        /\ (proc[p].pc \notin AcqPcs /\ proc'[p].pc \in AcqPcs) => proc'[p].pc = "acq_open"]_vars
\* A caller whose context was done when it made its create attempt holds the lock.
C29_Witness ==
    \E p \in Procs :
        /\ proc[p].alive /\ proc[p].pc = "idle" /\ proc[p].op = "acquire"
        /\ proc[p].unlock = "held" /\ proc[p].err = "nil" /\ proc[p].late = 1
        /\ LockFileOf(p)

\* C30: the release function removes the file at lockPath whoever created it; while
\* every lock file has been removed by one release call of the caller holding it
\* and by nothing else, at most one caller holds the lock and the lock file is the
\* holder's; and a create attempt that finds no lock file succeeds although another
\* caller still holds the lock.
C30_ReleaseRemovesAnyLockFile ==
    /\ [][\A p \in Procs :
            /\ (proc'[p].unlock # proc[p].unlock /\ proc'[p].unlock \in {"called", "again"}) =>
                  (~Exists(LockPath)' /\ proc'[p].freed = (proc[p].freed \/ Foreign(p)))
            /\ (Attempts(p) /\ ~Exists(LockPath)) => (proc'[p].unlock = "held" /\ LockFileOf(p)')]_vars
    /\ [](faults = 0 =>
            /\ Cardinality(Holders) <= 1
            /\ \A p \in Holders : LockFileOf(p)
            /\ \A p \in Procs : ~proc[p].freed)
\* A caller's release has removed the lock file of the other caller, the caller has
\* acquired the lock again, and the other caller still holds it.
C30_Witness ==
    \E p, q \in Procs :
        /\ p # q /\ proc[p].freed /\ ~proc[q].freed
        /\ proc[p].unlock = "held" /\ proc[p].pc = "idle" /\ LockFileOf(p)
        /\ proc[q].unlock = "held" /\ proc[q].pc = "idle"

\* ---- properties of saveCache and loadCache ----
\* p is inside saveCache between os.CreateTemp and os.Rename (both included).
Writing(p) == proc[p].op = "save" /\ proc[p].pc \in WritePcs
\* What loadCache makes of a backing file.
LoadOf(f) == loadCacheResult(~f.used \/ ~f.readable, f.bytes)
\* p's loadCache has returned.
Loaded(p) == proc[p].alive /\ proc[p].pc = "idle" /\ proc[p].op = "load"

\* C3: a saveCache call is between creating its temporary file and renaming it only
\* while the lock file it created is in place, and no two calls are there together.
C3_WritesUnderLock ==
    /\ \A p \in Procs : Writing(p) => (LockFileOf(p) /\ proc[p].unlock = "held")
    /\ Cardinality({p \in Procs : Writing(p)}) <= 1
\* One call is about to rename while another polls for the lock.
C3_Witness ==
    \E p, q \in Procs :
        /\ proc[p].alive /\ proc[p].pc = "save_rename"
        /\ proc[q].alive /\ proc[q].op = "save" /\ proc[q].pc = "acq_select"

\* C4: a loadCache that ran beside saveCache calls returns what the original backing
\* file holds or a whole document passed to a saveCache, never a part of one.
C4_LoadSeesWholeDocument ==
    \A p \in Procs : Loaded(p) => proc[p].out \in {LoadOf(orig)} \cup saved
\* A load returned the saved document before the saveCache that wrote it returned.
C4_Witness ==
    \E p, q \in Procs :
        /\ Loaded(p) /\ proc[p].out = SaveDoc(q) /\ proc[p].out # LoadOf(orig)
        /\ proc[q].alive /\ proc[q].pc = "save_unlock" /\ orig.used

\* C5: after a writer died between creating its temporary file and the rename, the
\* backing file is what it was when that saveCache began to write, and a loadCache
\* started afterwards returns that document.
C5_CrashKeepsOldFile ==
    \A q \in Procs :
        CrashedWriting(q) =>
            /\ FileAt(dir, inodes, CachePath) = proc[q].snap
            /\ \A p \in Procs :
                  (Loaded(p) /\ proc[p].follows) => proc[p].out = LoadOf(proc[q].snap)
\* The writer died with a part of the document in its temporary file; a later
\* loadCache returned the document of the old backing file.
C5_Witness ==
    \E p, q \in Procs :
        /\ CrashedWriting(q) /\ proc[q].pc = "save_write"
        /\ inodes[dir[proc[q].tmp]].bytes # <<>>
        /\ Loaded(p) /\ proc[p].follows /\ proc[p].out = DocP

\* C6: when a step of the atomic write has failed, saveCache is left with an error to
\* return, its temporary file is gone and the backing file is what it was when the
\* write began.
C6_FailedWriteLeavesNoTrace ==
    \A p \in Procs :
        (proc[p].alive /\ proc[p].pc = "save_unlock" /\ proc[p].err # "nil") =>
            /\ proc[p].err \in {"createtemp", "write", "sync", "close", "rename"}
            /\ proc[p].fd = NoFile
            /\ proc[p].tmp # NoName => ~Exists(proc[p].tmp)
            /\ FileAt(dir, inodes, CachePath) = proc[p].snap
\* The rename failed over an existing backing file.
C6_Witness ==
    \E p \in Procs :
        /\ proc[p].alive /\ proc[p].pc = "save_unlock" /\ proc[p].err = "rename"
        /\ proc[p].tmp # NoName /\ orig.used

\* C7: a saveCache that polls for the lock and does not get it changes no file (it
\* creates no temporary file and removes no lock file), keeps its argument, and
\* returns only once its context is done, with the error that wraps the context's.
C7_LockTimeoutChangesNothing ==
    [][\A p \in Procs :
        (proc[p].op = "save" /\ proc[p].pc \in AcqPcs /\ proc'[p] # proc[p]
            /\ proc'[p].unlock # "held") =>
            /\ dir' = dir /\ inodes' = inodes
            /\ proc'[p].pc \in AcqPcs \cup {"idle"}
            /\ proc'[p].pc \in AcqPcs => proc'[p].arg = proc[p].arg
            /\ proc'[p].pc = "idle" => (CtxErr(p) /\ proc'[p].err = "lock: ctx")]_vars
\* A saveCache gave up on the lock while the call holding it was still writing.
C7_Witness ==
    \E p, q \in Procs :
        /\ proc[q].alive /\ proc[q].pc = "idle" /\ proc[q].op = "save"
        /\ proc[q].err = "lock: ctx"
        /\ proc[p].alive /\ Writing(p) /\ LockFileOf(p) /\ proc[p].tmp # NoName

\* The lock file is there and the process that wrote it is dead.
Stale == Exists(LockPath) /\ ~proc[inodes[dir[LockPath]].pid].alive

\* C8: a lock file whose holder died stays in place: from then on nobody acquires the
\* lock and every acquireFileLock that returns, returns its context's error (so
\* saveCache fails); and a lock file is removed only by the release of the process
\* that created it.
C8_StaleLockStays ==
    [][/\ Stale =>
            /\ Stale' /\ dir'[LockPath] = dir[LockPath]
            /\ \A q \in Procs :
                  /\ proc'[q].unlock = "held" => proc[q].unlock = "held"
                  /\ AcquireReturns(q) => proc'[q].err \in {"ctx", "lock: ctx"}
       /\ (Exists(LockPath) /\ dir'[LockPath] # dir[LockPath]) =>
            \E p \in Procs : LockFileOf(p) /\ proc[p].alive /\ Releases(p)]_vars
\* The holder died while writing and a later saveCache has timed out on its lock.
C8_Witness ==
    \E p, q \in Procs :
        /\ Stale /\ LockFileOf(p) /\ CrashedWriting(p)
        /\ proc[q].alive /\ proc[q].pc = "idle" /\ proc[q].op = "save"
        /\ proc[q].err = "lock: ctx"

\* The backing files that hold no entries for loadCache: missing, unreadable, not
\* JSON of the document's shape, or JSON without entries.
Degenerate(f) ==
    \/ ~f.used
    \/ ~f.readable
    \/ f.bytes \notin {Marshal(DocP), Marshal(DocB), Marshal(DocBP)}

\* C10: loadCache returns a document whose Entries map is not nil, with no entries
\* when the backing file is missing, unreadable, not valid JSON or without entries,
\* and leaves the backing file as it was.
C10_LoadNeverFails ==
    /\ FileAt(dir, inodes, CachePath) = orig
    /\ \A p \in Procs :
          Loaded(p) =>
              /\ ~proc[p].out.nilMap
              /\ Degenerate(orig) => DOMAIN proc[p].out.Entries = {}
\* loadCache has returned an empty map for a backing file whose entries are null.
C10_Witness ==
    \E p \in Procs :
        /\ Loaded(p) /\ orig.used /\ orig.bytes = <<NullDoc>>
        /\ proc[p].out = EmptyCache /\ proc[p].data = <<NullDoc>>

\* ---- properties of findEntryInCache ----
\* p's last call was findEntryInCache(proc[p].out, proc[p].city), result proc[p].hit
Found(p) == proc[p].alive /\ proc[p].op = "find"
\* lowercase(trim(q)), written out
LowerTrim(q) == ToLower(TrimRight(TrimLeft(q)))
\* the entry stored under key answers to k: by the key, its City or one of its Aliases
AnswersTo(m, key, k) ==
    \/ key = k
    \/ LowerTrim(m[key].City) = k
    \/ \E i \in 1..Len(m[key].Aliases) : LowerTrim(m[key].Aliases[i]) = k

\* C13: findEntryInCache(cache, q) finds something exactly when, with
\* k = lowercase(trim(q)), k is a key of the cache or the normalized City or alias of
\* an entry; what it returns is then an entry that answers to k (the only one, when
\* there is only one), and otherwise the zero entry with found = false.
C13_FindMatchesKeyCityAlias ==
    \A p \in Procs :
        Found(p) =>
            LET m == proc[p].out.Entries
                k == LowerTrim(proc[p].city)
                answering == {key \in DOMAIN m : AnswersTo(m, key, k)}
            IN /\ proc[p].hit.ok <=> answering # {}
               /\ proc[p].hit.ok => \E key \in answering : m[key] = proc[p].hit.e
               /\ ~proc[p].hit.ok => proc[p].hit.e = ZeroEntry
C13_Witness ==
    \E p \in Procs :
        /\ Found(p) /\ proc[p].hit.ok
        /\ proc[p].city \notin DOMAIN proc[p].out.Entries
        /\ proc[p].city # proc[p].hit.e.City
        /\ \A i \in 1..Len(proc[p].hit.e.Aliases) : proc[p].hit.e.Aliases[i] # proc[p].city
        /\ \E i \in 1..Len(proc[p].hit.e.Aliases) :
              LowerTrim(proc[p].hit.e.Aliases[i]) = LowerTrim(proc[p].city)
        /\ LowerTrim(proc[p].hit.e.City) # LowerTrim(proc[p].city)

\* C15: an entry whose Normalized field differs from the key it is stored under is
\* never returned by findEntryInCache as an ordinary hit.
C15_MismatchNotReturned ==
    \A p \in Procs :
        Found(p) /\ proc[p].hit.ok =>
            \A key \in DOMAIN proc[p].out.Entries :
                proc[p].out.Entries[key] = proc[p].hit.e => proc[p].hit.e.Normalized = key

\* C26: when the normalized query is a key of the cache, findEntryInCache returns the
\* entry stored under that key and no other, also when another entry has the same
\* string as its City or as an alias: the scan does not come into it.
C26_KeyBeforeScan ==
    \A p \in Procs :
        Found(p) =>
            LET m == proc[p].out.Entries
                k == LowerTrim(proc[p].city)
            IN k \in DOMAIN m =>
                  /\ proc[p].hit = [e |-> m[k], ok |-> TRUE]
                  /\ findEntryInCache(proc[p].out, proc[p].city) = {proc[p].hit}
\* The query is a key, and the entry under another key has it as an alias: the entry
\* under the key was returned.
C26_Witness ==
    \E p \in Procs :
        /\ Found(p) /\ proc[p].hit.ok
        /\ LET m == proc[p].out.Entries
               k == LowerTrim(proc[p].city)
           IN /\ k \in DOMAIN m /\ proc[p].hit.e = m[k]
              /\ \E key \in DOMAIN m \ {k} :
                    /\ m[key] # m[k]
                    /\ \E i \in 1..Len(m[key].Aliases) : LowerTrim(m[key].Aliases[i]) = k

\* C27: for a given cache and query every call of findEntryInCache returns the same
\* entry and found flag: the result a call gave is the only one the call can give.
C27_FindIsDeterministic ==
    \A p \in Procs :
        Found(p) => findEntryInCache(proc[p].out, proc[p].city) = {proc[p].hit}

\* ---- properties of saveCache followed by loadCache ----
\* every string of the document is UTF-8 text
TextOK(str) == \A i \in 1..Len(str) : str[i] # "0xFF"
ValidDoc(d) ==
    \A k \in DOMAIN d.Entries :
        /\ TextOK(k) /\ TextOK(d.Entries[k].City) /\ TextOK(d.Entries[k].Normalized)
        /\ \A i \in 1..Len(d.Entries[k].Aliases) : TextOK(d.Entries[k].Aliases[i])
AliasSet(e) == {e.Aliases[i] : i \in 1..Len(e.Aliases)}
\* the same keys, and under each key the same field values, aliases taken as sets
Equivalent(a, d) ==
    /\ DOMAIN a.Entries = DOMAIN d.Entries
    /\ \A k \in DOMAIN d.Entries :
          /\ [a.Entries[k] EXCEPT !.Aliases = <<>>] = [d.Entries[k] EXCEPT !.Aliases = <<>>]
          /\ AliasSet(a.Entries[k]) = AliasSet(d.Entries[k])
\* p's loadCache returns in this step, having read file f
LoadReturns(p, f) ==
    /\ proc[p].pc = "load_read" /\ proc'[p].pc = "idle" /\ proc'[p].alive
    /\ f = inodes[proc[p].fd]

\* C11: a loadCache that reads the file a successful saveCache(d) put in place (no
\* other writer in between) returns a document equivalent to d, for every valid d:
\* the same keys and under each key the same field values, aliases as sets.
C11_RoundTrip ==
    [][\A p \in Procs : \A f \in {inodes[i] : i \in InoIds} :
          LoadReturns(p, f) /\ f.src # <<>> /\ ValidDoc(f.src[1])
              => Equivalent(proc'[p].out, f.src[1])]_vars
C11_Witness ==
    \E p \in Procs :
        /\ proc[p].alive /\ proc[p].op = "load" /\ proc[p].pc = "idle"
        /\ \E d \in saved :
              /\ ValidDoc(d) /\ Cardinality(DOMAIN d.Entries) = 2
              /\ proc[p].data = Marshal(d)
              /\ Equivalent(proc[p].out, d)

\* ---- properties of prepareCity on the shared cache file ----
\* p's prepareCity has returned
Prepared(p) == proc[p].alive /\ proc[p].job = "prepared"
\* p's saveCache renames its temporary file onto the backing file in this step
Renames(p) == proc[p].pc = "save_rename" /\ proc'[p].pc = "save_unlock"
\* the cache a loadCache would return now
CacheNow == LoadOf(FileAt(dir, inodes, CachePath))

\* C12: the backing file changes only when a saveCache renames, and then to the
\* whole document of that save, or when the cache is cleared; so after concurrent
\* prepareCity runs it is the document of the save that renamed last, never a merge.
C12_LastWriterWins ==
    [][FileAt(dir', inodes', CachePath) # FileAt(dir, inodes, CachePath) =>
          \/ \E p \in Procs :
                /\ Renames(p)
                /\ FileAt(dir', inodes', CachePath).bytes = Marshal(proc[p].arg)
          \/ \E p \in Procs :
                /\ proc'[p].op = "clear" /\ proc[p] # proc'[p]
                /\ ~FileAt(dir', inodes', CachePath).used]_vars
\* Two online runs for different cities have both returned without error, each saw
\* the cache without the other's entry, and the file holds one of the two entries.
C12_Witness ==
    /\ \A p \in Procs : Prepared(p) /\ ~proc[p].offline /\ proc[p].err = "nil" /\ proc[p].http
    /\ \E p, q \in Procs :
          /\ normalizeCityKey(proc[p].city) \in DOMAIN CacheNow.Entries
          /\ normalizeCityKey(proc[q].city) \notin DOMAIN CacheNow.Entries
          /\ Place(proc[p].city) # Place(proc[q].city)
    /\ Cardinality(DOMAIN CacheNow.Entries) = 1
    /\ Cardinality(saved) = 2

\* the keys the backing file's bytes hold, with repetitions
FileKeys ==
    LET b == FileAt(dir, inodes, CachePath).bytes
    IN [i \in {n \in 1..Len(b) : b[n].t = "kv"} |-> b[i].k]

\* C14: in the cache file, in every cache loaded from it and in every document passed
\* to saveCache, each entry's Normalized field is the key it is stored under, and no
\* key occurs twice in the file.
C14_NormalizedIsKey ==
    /\ \A d \in saved \cup {CacheNow} \cup {proc[p].out : p \in Procs} :
          \A k \in DOMAIN d.Entries : d.Entries[k].Normalized = k
    /\ \A i, j \in DOMAIN FileKeys : FileKeys[i] = FileKeys[j] => i = j
\* The file holds two entries, one of them stored for a name typed with capitals.
C14_Witness ==
    /\ Cardinality(DOMAIN CacheNow.Entries) = 2
    /\ \E k \in DOMAIN CacheNow.Entries : CacheNow.Entries[k].City # k

\* C20: once online prepareCity runs for names of the group 北京 / Beijing / Peking
\* have all succeeded, starting without a cache, the cache holds one record and each
\* of the three names resolves to that record.
C20_AliasesOneRecord ==
    (/\ faults = 0
     /\ \A p \in Procs : proc[p].op # "none" => Prepared(p) /\ proc[p].err = "nil"
     /\ \E p \in Procs : Prepared(p))
        => /\ Cardinality(DOMAIN CacheNow.Entries) = 1
           /\ \A name \in AliasGroup :
                 \A r \in findEntryInCache(CacheNow, name) :
                     r.ok /\ \E k \in DOMAIN CacheNow.Entries : r.e = CacheNow.Entries[k]


\* ---- properties of the freshness check and of offline mode ----
\* p's prepareCity found an entry whose UpdatedAt is a time
TimedHit(p) == Prepared(p) /\ proc[p].hit.ok /\ ParseRFC3339(proc[p].hit.e.UpdatedAt).ok
\* now - updatedAt for that entry
Elapsed(p) == Sub(proc[p].now, ParseRFC3339(proc[p].hit.e.UpdatedAt).t)
\* the smallest step of time.Time and time.Duration
OneNs == At(0, 1)
\* the hit was taken as stale: in offline mode the call ends with the expiry error,
\* in online mode it goes to the geocoder for a new entry
TreatedStale(p) ==
    IF proc[p].offline THEN proc[p].err = "offline: expired" /\ proc[p].cc.nil
    ELSE proc[p].http
\* the hit was taken as fresh: the call went on to load the entry's time zone
TreatedFresh(p) == proc[p].err \in {"nil", "cached timezone"} /\ ~proc[p].http

\* C16 as claimed: an entry whose updatedAt is exactly now - TTL is treated as stale,
\* and one fresher by the smallest step as fresh.
C16_BoundaryIsStale ==
    \A p \in Procs :
        TimedHit(p) =>
            /\ Elapsed(p) = cacheTTL => TreatedStale(p)
            /\ Elapsed(p) = Sub(cacheTTL, OneNs) => TreatedFresh(p)
\* C16 as amended: an entry whose updatedAt is exactly now - TTL is treated as fresh
\* (stale means elapsed > TTL), one older by the smallest step as stale, and one
\* fresher by the smallest step as fresh.
C16_BoundaryIsFresh ==
    \A p \in Procs :
        TimedHit(p) =>
            /\ Elapsed(p) = cacheTTL => TreatedFresh(p)
            /\ Elapsed(p) = At(cacheTTL.s, 1) => TreatedStale(p)
            /\ Elapsed(p) = Sub(cacheTTL, OneNs) => TreatedFresh(p)
C16_Witness ==
    \E p \in Procs :
        /\ TimedHit(p) /\ Elapsed(p) = cacheTTL
        /\ proc[p].err = "nil" /\ ~proc[p].cc.nil

\* C17: whether findEntryInCache finds an entry does not depend on its age, and a hit
\* whose age exceeds the TTL of 100 days is taken as stale (the expiry error in
\* offline mode, a new lookup in online mode), not as a miss and not as a usable hit.
C17_StaleHitIsFoundAndStale ==
    \A p \in Procs :
        Prepared(p) /\ proc[p].err # "no city" =>
            /\ proc[p].hit.ok <=>
                  \E key \in DOMAIN proc[p].out.Entries :
                      AnswersTo(proc[p].out.Entries, key, LowerTrim(proc[p].city))
            /\ TimedHit(p) /\ DurGreater(Elapsed(p), cacheTTL) => TreatedStale(p)
C17_Witness ==
    \E p \in Procs :
        /\ TimedHit(p) /\ Elapsed(p) = At(101 * 24 * 3600, 0) /\ proc[p].offline
        /\ \E key \in DOMAIN proc[p].out.Entries : proc[p].out.Entries[key] = proc[p].hit.e
        /\ TreatedStale(p)

\* C18: no step of a prepareCity in offline mode sends a request, and none creates,
\* writes or removes the cache file, the lock file or any other file.
C18_OfflineIsLocal ==
    [][\A p \in Procs :
          proc'[p] # proc[p] /\ proc'[p].offline /\ proc'[p].job \in {"prepare", "prepared"}
              => /\ ~proc'[p].http
                 /\ dir' = dir
                 /\ \A name \in Names : FileAt(dir', inodes', name) = FileAt(dir, inodes, name)
                 /\ saved' = saved
                 /\ proc'[p].pc \in {"idle", "load_read", "prep_cached"}
                 /\ proc'[p].unlock # "held"]_vars
\* A second offline run has ended on a stale hit: the cache file is as it was and
\* there is no lock file.
C18_Witness ==
    \E p \in Procs :
        /\ Prepared(p) /\ proc[p].offline /\ proc[p].err = "offline: expired" /\ calls > 1
        /\ ~proc[p].http
        /\ ~Exists(LockPath) /\ orig.used /\ FileAt(dir, inodes, CachePath) = orig

\* the entries of the cache that answer to q, were no older than the TTL at the
\* instant now and have a time zone that loads
Usable(q, now) ==
    LET m == CacheNow.Entries
    IN {key \in DOMAIN m :
          /\ AnswersTo(m, key, LowerTrim(q))
          /\ ParseRFC3339(m[key].UpdatedAt).ok
          /\ ~DurGreater(Sub(now, ParseRFC3339(m[key].UpdatedAt).t), cacheTTL)
          /\ LoadLocationOk(m[key].TimezoneID)}
\* the context is copied from the entry stored under key
CopiedFrom(c, key) ==
    LET e == CacheNow.Entries[key]
    IN /\ c.City = e.City /\ c.DisplayName = e.DisplayName
       /\ c.Lat = e.Lat /\ c.Lon = e.Lon /\ c.TZID = e.TimezoneID
\* what the claim says of one finished offline call, fresh being fresh at the
\* instant of the call's freshness check
OfflineContract(p) ==
    /\ ~proc[p].cc.nil <=> Usable(proc[p].city, proc[p].now) # {}
    /\ ~proc[p].cc.nil =>
          /\ proc[p].err = "nil"
          /\ \E key \in Usable(proc[p].city, proc[p].now) : CopiedFrom(proc[p].cc, key)
    /\ proc[p].cc.nil => proc[p].err # "nil"

\* C19 as claimed: prepareCity(q, offline) returns a context exactly when q resolves
\* to a fresh entry with a loadable time zone, copied from that entry; otherwise an
\* error and no context.
C19_ContextIffUsableHit ==
    \A p \in Procs : Prepared(p) /\ proc[p].offline => OfflineContract(p)
\* C19 as amended: the same for every q that is not the empty string; for the empty
\* string prepareCity returns an error and no context whatever the cache holds.
C19_ContextIffUsableHitOfName ==
    \A p \in Procs :
        Prepared(p) /\ proc[p].offline =>
            IF proc[p].city = <<>> THEN proc[p].cc.nil /\ proc[p].err # "nil"
            ELSE OfflineContract(p)
C19_Witness ==
    \E p \in Procs :
        /\ Prepared(p) /\ proc[p].offline /\ ~proc[p].cc.nil
        /\ proc[p].cc.City # proc[p].city
        /\ proc[p].city \notin DOMAIN CacheNow.Entries


\* p's prepareCity has come back from geocodeCity, tzLookup or loadTZ with an error
CollaboratorFailed(p) == Prepared(p) /\ proc[p].err \in {"geocode", "tz", "loadtz"}
\* p's prepareCity is in saveCache
Saving(p) == proc[p].job = "prepare" /\ proc[p].op = "save"

\* C21: an online prepareCity whose geocoder, time zone lookup or time zone loading
\* fails returns an error and no context, has attempted no save, and leaves the cache
\* file as the call found it; a prepareCity is in saveCache only with all three steps
\* done and the context built.
C21_FailedLookupSavesNothing ==
    /\ [](\A p \in Procs : CollaboratorFailed(p) =>
              proc[p].cc.nil /\ proc[p].unlock # "held" /\ proc[p].tmp = NoName)
    /\ [](\A p \in Procs : Saving(p) => proc[p].net = "ok" /\ ~proc[p].cc.nil)
    /\ [][\A p \in Procs : (proc[p].job = "prepare" /\ CollaboratorFailed(p)') =>
              /\ saved' = saved /\ dir' = dir /\ inodes' = inodes
              /\ proc[p].out = CacheNow /\ ~Exists(LockPath)]_vars
\* The time zone of the place found did not load; the cache file of the run before
\* is as that run left it.
C21_Witness ==
    \E p \in Procs :
        /\ CollaboratorFailed(p) /\ proc[p].err = "loadtz" /\ proc[p].net = "loadtz"
        /\ proc[p].http /\ saved # {} /\ CacheNow \in saved /\ CacheNow = proc[p].out

\* p's saveCache returns in this step.
SaveReturns(p) == proc[p].op = "save" /\ proc[p].pc # "idle" /\ proc'[p].pc = "idle" /\ proc'[p].alive
\* no process has died, and none is inside a call
AllReturned == \A p \in Procs : proc[p].alive /\ proc[p].pc = "idle"

\* C25: a saveCache that acquired the lock calls its release once, as it returns, on
\* the success path and on every failure path, and the release removes the lock
\* file; so with no process dead and every call returned there is no lock file, and
\* the first create attempt of a saveCache that runs alone succeeds.
C25_SaveReleasesOnce ==
    /\ [][\A p \in Procs :
            /\ (SaveReturns(p) /\ proc[p].unlock = "held") => (Releases(p) /\ ~Exists(LockPath)')
            /\ (proc[p].op = "save" /\ Releases(p)) => (SaveReturns(p) /\ LockFileOf(p))
            /\ (proc[p].op = "save" /\ proc[p].unlock # "held" /\ SaveReturns(p)) =>
                  (proc'[p].unlock = proc[p].unlock /\ dir' = dir)
            /\ (Attempts(p) /\ \A q \in Procs \ {p} : proc[q].alive /\ proc[q].pc = "idle") =>
                  proc'[p].unlock = "held"]_vars
    /\ [](AllReturned => ~Exists(LockPath))
    /\ [](\A p \in Procs : (proc[p].alive /\ proc[p].pc = "idle") => proc[p].unlock # "held")
\* A saveCache whose rename failed has returned, and the saveCache after it has the
\* lock.
C25_Witness ==
    \E p, q \in Procs :
        /\ p # q /\ proc[p].alive /\ proc[p].pc = "idle" /\ proc[p].op = "save"
        /\ proc[p].err = "rename" /\ proc[p].unlock = "called"
        /\ proc[q].alive /\ Writing(q) /\ LockFileOf(q) /\ proc[q].waited

\* p's online prepareCity went to the collaborators and has saved its new entry
Refreshed(p) == Prepared(p) /\ ~proc[p].offline /\ proc[p].http /\ proc[p].err = "nil"
\* the keys under which cache holds the entry e
KeysOf(cache, e) == {k \in DOMAIN cache.Entries : cache.Entries[k] = e}

\* C28: the cache an online prepareCity saves is the cache it loaded with one entry
\* put under normalizeCityKey(query) and stamped no earlier than the call read the
\* clock for its freshness check: every entry under another key, the stale entry
\* that was matched through its City or an alias among them, is still there and
\* unchanged, and the matched entry is replaced only when the query normalizes to its
\* own key.
C28_RefreshUnderQueryKey ==
    \A p \in Procs :
        Refreshed(p) =>
            LET old == proc[p].out.Entries
                new == CacheNow.Entries
                k == LowerTrim(proc[p].city)
            IN /\ DOMAIN new = DOMAIN old \cup {k}
               /\ new[k].City = proc[p].city /\ new[k].Normalized = k
               /\ ParseRFC3339(new[k].UpdatedAt).ok
               /\ ~DurGreater(ParseRFC3339(FormatRFC3339(proc[p].now)).t, ParseRFC3339(new[k].UpdatedAt).t)
               /\ \A key \in DOMAIN old \ {k} : new[key] = old[key]
               /\ (proc[p].hit.ok /\ k \notin KeysOf(proc[p].out, proc[p].hit.e)) =>
                     KeysOf(CacheNow, proc[p].hit.e) = KeysOf(proc[p].out, proc[p].hit.e)
\* A stale entry was matched through an alias that is not its key: the cache now has
\* the new entry under the query's key next to the stale entry.
C28_Witness ==
    \E p \in Procs :
        /\ Refreshed(p) /\ proc[p].hit.ok /\ Expired(proc[p].hit.e, proc[p].now)
        /\ LowerTrim(proc[p].city) \notin DOMAIN proc[p].out.Entries
        /\ KeysOf(CacheNow, proc[p].hit.e) # {}
        /\ CacheNow.Entries[LowerTrim(proc[p].city)] # proc[p].hit.e
        /\ Cardinality(DOMAIN CacheNow.Entries) = Cardinality(DOMAIN proc[p].out.Entries) + 1

\* the mode the TUI shows as selected
Mode == tui.m.modes[tui.m.modeIndex + 1]
\* the steps at which the TUI asks for text
InputSteps == {stepMain, stepDayInput, stepRangeFromInput, stepRangeToInput}
\* nothing but spaces
Blank(text) == \A i \in DOMAIN text : text[i] = " "

\* C22: whatever keys Update has been given, modeIndex and formatIndex are indexes of
\* modes and formats; at index 0 a left (up) key and at the last index a right (down)
\* key leave the index as it is.
C22_IndexesInBounds ==
    /\ tui.m.modeIndex \in 0..(Len(tui.m.modes) - 1)
    /\ tui.m.formatIndex \in 0..(Len(tui.m.formats) - 1)
    /\ tui.m.modeIndex = 0 =>
          \A key \in {"left", "h"} : Update(tui.m, key).m.modeIndex = 0
    /\ tui.m.modeIndex = Len(tui.m.modes) - 1 =>
          \A key \in {"right", "l"} : Update(tui.m, key).m.modeIndex = tui.m.modeIndex
    /\ tui.m.formatIndex = 0 =>
          \A key \in {"up", "k"} : Update(tui.m, key).m.formatIndex = 0
    /\ tui.m.formatIndex = Len(tui.m.formats) - 1 =>
          \A key \in {"down", "j"} : Update(tui.m, key).m.formatIndex = tui.m.formatIndex
\* Both indexes have been moved to the last element, at the main step.
C22_Witness ==
    /\ tui.m.step = stepMain
    /\ tui.m.modeIndex = Len(modes) - 1 /\ tui.m.formatIndex = Len(formats) - 1

\* C23 as claimed: while the TUI asks for text, the input buffer is the characters
\* typed less those taken back, and the city Enter accepts is the text typed.
C23_InputIsWhatWasTyped ==
    /\ [](tui.m.step \in InputSteps => tui.m.input = tui.typed)
    /\ [][(tui.m.step = stepMain /\ tui'.m.step # stepMain /\ ~Blank(tui.typed)) =>
              tui'.m.chosenCity = TrimSpace(tui.typed)]_vars

\* the steps Enter may lead to, by mode
StepEdges ==
    [Year |-> {<<stepMain, stepDone>>},
     Day |-> {<<stepMain, stepDayInput>>, <<stepDayInput, stepDone>>},
     Range |-> {<<stepMain, stepRangeFromInput>>, <<stepRangeFromInput, stepRangeToInput>>,
                <<stepRangeToInput, stepDone>>}]
\* Enter finds the text it needs missing: a blank input, and at the main step no
\* cached city to fall back on
MissingInput ==
    /\ Blank(tui.m.input)
    /\ \/ tui.m.step = stepMain /\ tui.m.cachedKeys = <<>>
       \/ tui.m.step \in InputSteps \ {stepMain}

\* C24: the step changes only along the path of the selected mode (Year: main to
\* done; Day: main, day, done; Range: main, from, to, done); the mode does not
\* change once the main step is left; Enter on a missing input sets errMsg and keeps
\* the step; the Update that reaches stepDone returns tea.Quit; and at stepDone,
\* whatever keys follow, quitting is set, chosenCity is not empty and neither are the
\* date fields of the selected mode.
C24_StepMachine ==
    /\ [][tui'.m.step # tui.m.step => <<tui.m.step, tui'.m.step>> \in StepEdges[Mode]]_vars
    /\ [][(tui'.m.step # tui.m.step /\ tui'.m.step = stepDone) => tui'.cmd = "quit"]_vars
    /\ [][tui.m.step # stepMain => tui'.m.modeIndex = tui.m.modeIndex]_vars
    /\ [](MissingInput =>
             /\ Update(tui.m, "enter").m.errMsg # ""
             /\ Update(tui.m, "enter").m.step = tui.m.step
             /\ Update(tui.m, "enter").cmd = "nil")
    /\ [](tui.m.step = stepDone =>
             /\ tui.m.quitting /\ tui.m.chosenCity # <<>>
             /\ Mode = "Day" => tui.m.dayDate # <<>>
             /\ Mode = "Range" => tui.m.rangeFrom # <<>> /\ tui.m.rangeTo # <<>>)
\* A Range run is done: the city and two different dates were entered.
C24_Witness ==
    /\ tui.m.step = stepDone /\ Mode = "Range" /\ tui.m.quitting
    /\ tui.m.chosenCity # <<>> /\ tui.m.rangeFrom # <<>> /\ tui.m.rangeTo # <<>>
    /\ tui.m.rangeTo # tui.m.rangeFrom

TypeOK ==
    /\ dir \in [Names -> InoIds \cup {NoFile}]
    /\ calls \in 0..(MaxCalls + MaxLockCalls + MaxCityCalls) /\ faults \in 0..MaxFaults
    /\ \A p \in Procs : proc[p].pc \in {"idle", "load_read", "save_cleanup", "save_unlock"} \cup AcqPcs \cup WritePcs \cup PrepPcs

====
